---- MODULE Spec2Model ----
(***************************************************************************)
(* Model of the kiosk shell (src/kiosk-shell/kiosk-shell.c): the window    *)
(* side records (kiosk_shell_surface), the registered outputs              *)
(* (kiosk_shell_output), the per-seat focus records (kiosk_shell_seat),    *)
(* the normal layer's view list, and the handlers the compositor calls.    *)
(*                                                                         *)
(* One action is one handler run to completion (the shell is               *)
(* single-threaded, callbacks never interleave).  A handler is written as  *)
(* a function from a state record to a state record, so that the calls it  *)
(* makes (set_parent -> set_output -> set_normal -> find_best_output ...)  *)
(* compose the way they do in C.                                           *)
(***************************************************************************)
EXTENDS Integers, Sequences, FiniteSets, TLC

VARIABLES
    shsurf,          \* surface -> struct kiosk_shell_surface (live = user data set)
    dsurf,           \* surface -> state of its weston_desktop_surface
    mapped,          \* surface -> view->is_mapped
    views,           \* surface -> geometry and output of its weston_view
    background_view, \* output -> shoutput->background_view
    output_pos,      \* output -> <<x, y>>
    layer,           \* shell->normal_layer.view_list, top view first
    seats,           \* seat -> weston_seat / weston_keyboard / kiosk_shell_seat
    output_list,     \* shell->output_list, in registration order
    output_size,     \* output -> <<width, height>>
    focused_output,  \* what get_focused_output() returns (0: none)
    activate_log,    \* set_activated commands issued by the last handler
    event,           \* the last handler that ran, with its arguments
    hung,            \* the handler entered a loop that never ends
    probe            \* one call of kiosk_shell_output_has_app_id by itself

vars == <<shsurf, dsurf, mapped, views, background_view, output_pos, layer,
          seats, output_list, output_size, focused_output, activate_log,
          event, hung, probe>>

(***************************************************************************)
(* Bounds.                                                                 *)
(***************************************************************************)
MaxSurfaces == 3
MaxOutputs == 2
MaxSeats == 2

None == 0
MainSurfaces == 1..MaxSurfaces
\* One wl_subsurface, a child of surface 1: keyboard focus may sit on it.
SubSurface == MaxSurfaces + 1
Surfaces == 1..(MaxSurfaces + 1)
Outputs == 1..MaxOutputs
Seats == 1..MaxSeats

(***************************************************************************)
(* Strings are sequences of one-character strings; a NULL char pointer is  *)
(* NullStr and the terminating NUL of a C string is the character Nul.     *)
(***************************************************************************)
NullStr == <<"NULL">>
Nul == "NUL"
Comma == ","

\* str[i] of a C string: the characters, then the terminator.
CharAt(str, i) == IF i = Len(str) + 1 THEN Nul ELSE str[i]

\* Does needle occur in hay at position i (without running past the NUL)?
MatchesAt(hay, i, needle) ==
    /\ i + Len(needle) - 1 <= Len(hay)
    /\ \A k \in 1..Len(needle) : hay[i + k - 1] = needle[k]

\* strstr(hay + (from - 1), needle): the first position >= from where needle
\* occurs, 0 when there is none.  An empty needle is found at from itself.
StrStr(hay, from, needle) ==
    LET hits == {i \in from..(Len(hay) + 1) : MatchesAt(hay, i, needle)}
    IN  IF hits = {} THEN 0
        ELSE CHOOSE i \in hits : \A j \in hits : i <= j

\* The loop of kiosk_shell_output_has_app_id with cur at position `cur`.
\* "ub": cur has moved past the terminating NUL and strstr reads outside
\* the string.
RECURSIVE HasAppIdFrom(_, _, _)
HasAppIdFrom(app_ids, app_id, cur) ==
    IF cur > Len(app_ids) + 1 THEN "ub"
    ELSE LET p == StrStr(app_ids, cur, app_id)
         IN  IF p = 0 THEN "false"
             ELSE IF /\ CharAt(app_ids, p + Len(app_id)) \in {Comma, Nul}
                     /\ (p = 1 \/ app_ids[p - 1] = Comma)
                  THEN "true"
                  ELSE HasAppIdFrom(app_ids, app_id, p + 1)

\* kiosk_shell_output_has_app_id: "true", "false", or "ub".
HasAppIdOutcome(app_ids, app_id) ==
    IF app_ids = NullStr THEN "false"
    ELSE HasAppIdFrom(app_ids, app_id, 1)

\* The [output] section's app-ids string of each output name.
AppIdsConfig(o) ==
    CASE o = 1 -> <<"b">>
      [] o = 2 -> <<"a", ",", "b">>
      [] OTHER -> NullStr

\* The geometry the compositor gives each output.
OutputMode(o) == <<4 * o, 3 * o>>

\* shoutput->app_ids, read by kiosk_shell_output_configure at creation.
OutputAppIds(o) == AppIdsConfig(o)

\* kiosk_shell_output_has_app_id(shoutput, app_id) for the app ids the
\* windows of the model carry (not empty: the loop stays inside the string).
HasAppId(o, app_id) == HasAppIdOutcome(OutputAppIds(o), app_id) = "true"

(***************************************************************************)
(* Records.                                                                *)
(***************************************************************************)
\* A zalloc'ed kiosk_shell_surface; also what stands for a freed one.
NoShsurf == [live |-> FALSE, parent |-> None, parent_listener |-> None,
             output |-> None, output_listener |-> None, focus_count |-> 0]

\* A desktop surface no command has reached yet.
NoDsurf == [app_id |-> NullStr, fullscreen |-> FALSE, maximized |-> FALSE,
            size |-> <<0, 0>>, activated |-> FALSE]

\* listening: keyboard_focus_listener is linked into the keyboard's
\* focus_signal; twice: it has been added to the signal while linked.
NoSeat == [live |-> FALSE, keyboard |-> FALSE, kbd_focus |-> None,
           focused_surface |-> None, listening |-> FALSE, twice |-> FALSE]

\* The last handler: its name, the surface and seat it was called for and
\* its other argument; for a window removal the successor it chose (arg),
\* the parent the window had when it was called and the focus_count of the
\* record when it was freed.
NoEvent == [name |-> "init", surface |-> None, arg |-> None, seat |-> None,
            parent |-> None, count |-> 0, linked |-> None]

\* A view as weston_desktop_surface_create_view gives it: on no output, at
\* the origin; size is the width and height of its surface at the last
\* commit (shsurf->last_width, last_height), zero before the first.
\* created: the surface has a view.
NoView == [output |-> None, pos |-> <<0, 0>>, size |-> <<0, 0>>,
           created |-> FALSE]

\* No background view.
NoBackground == [live |-> FALSE, pos |-> <<0, 0>>, size |-> <<0, 0>>]

\* No call of kiosk_shell_output_has_app_id is looked at by itself.
NoProbe == [app_ids |-> NullStr, app_id |-> NullStr, result |-> "none"]

\* The whole state as one record, for the handlers to transform.
St == [shsurf |-> shsurf, dsurf |-> dsurf, mapped |-> mapped, layer |-> layer,
       view |-> views, background_view |-> background_view,
       output_pos |-> output_pos,
       seats |-> seats, output_list |-> output_list,
       output_size |-> output_size, focused_output |-> focused_output,
       activate_log |-> <<>>, hung |-> FALSE]

Commit(st, ev) ==
    /\ shsurf' = st.shsurf
    /\ dsurf' = st.dsurf
    /\ mapped' = st.mapped
    /\ views' = st.view
    /\ background_view' = st.background_view
    /\ output_pos' = st.output_pos
    /\ layer' = st.layer
    /\ seats' = st.seats
    /\ output_list' = st.output_list
    /\ output_size' = st.output_size
    /\ focused_output' = st.focused_output
    /\ activate_log' = st.activate_log
    /\ hung' = st.hung
    /\ event' = ev
    /\ probe' = probe

Range(seq) == {seq[i] : i \in 1..Len(seq)}

\* The compositor's event loop is ready to dispatch the next event: the
\* last handler has returned (a hung handler never does).
Idle == ~hung /\ event = NoEvent


Hang == -1

Min(S) == CHOOSE x \in S : \A y \in S : x <= y

(***************************************************************************)
(* libweston, as the shell uses it.                                        *)
(***************************************************************************)
\* weston_surface_get_main_surface: a subsurface resolves to its parent.
MainSurface(surface) == IF surface = SubSurface THEN 1 ELSE surface

\* get_default_output: the first output of the compositor's list.
GetDefaultOutput(st) ==
    IF st.output_list = <<>> THEN None ELSE Head(st.output_list)

\* get_focused_output.
GetFocusedOutput(st) == st.focused_output

\* weston_desktop_surface_set_activated.
SetActivated(st, s, on) ==
    [st EXCEPT !.dsurf[s].activated = on,
               !.activate_log = Append(@, <<s, on>>)]

(***************************************************************************)
(* kiosk_shell_surface                                                     *)
(***************************************************************************)
\* get_kiosk_shell_surface: the record of a surface, None when its desktop
\* surface is gone or carries no user data.
GetKioskShellSurface(st, surface) ==
    IF surface \in MainSurfaces /\ st.shsurf[surface].live THEN surface
    ELSE None

\* kiosk_shell_surface_get_parent_root, given `fuel` steps: Hang when the
\* parent chain does not end (the while loop never leaves).
RECURSIVE ParentRootWalk(_, _, _)
ParentRootWalk(sh, w, fuel) ==
    IF sh[w].parent = None THEN w
    ELSE IF fuel = 0 THEN Hang
    ELSE ParentRootWalk(sh, sh[w].parent, fuel - 1)

GetParentRoot(st, w) == ParentRootWalk(st.shsurf, w, MaxSurfaces)

\* A wrong find_best_output, to test the claims against: the focused output
\* is taken before the app id and the root are looked at.
FindBestOutputMutFocusFirst(st, w) ==
    LET app_id == st.dsurf[w].app_id
        hits == {i \in 1..Len(st.output_list) :
                    HasAppId(st.output_list[i], app_id)}
        root == GetParentRoot(st, w)
    IN  IF st.shsurf[w].output # None THEN st.shsurf[w].output
        ELSE IF GetFocusedOutput(st) # None THEN GetFocusedOutput(st)
        ELSE IF app_id # NullStr /\ hits # {} THEN st.output_list[Min(hits)]
        ELSE IF root = Hang THEN Hang
        ELSE IF st.shsurf[root].output # None THEN st.shsurf[root].output
        ELSE GetDefaultOutput(st)

\* A wrong find_best_output, to test the claims against: the output of the
\* root is taken before the app id is looked at.
FindBestOutputMutRootFirst(st, w) ==
    LET app_id == st.dsurf[w].app_id
        hits == {i \in 1..Len(st.output_list) :
                    HasAppId(st.output_list[i], app_id)}
        root == GetParentRoot(st, w)
    IN  IF st.shsurf[w].output # None THEN st.shsurf[w].output
        ELSE IF root = Hang THEN Hang
        ELSE IF st.shsurf[root].output # None THEN st.shsurf[root].output
        ELSE IF app_id # NullStr /\ hits # {} THEN st.output_list[Min(hits)]
        ELSE IF GetFocusedOutput(st) # None THEN GetFocusedOutput(st)
        ELSE GetDefaultOutput(st)

\* kiosk_shell_surface_find_best_output: an output, None, or Hang.
FindBestOutput(st, w) ==
    LET app_id == st.dsurf[w].app_id
        hits == {i \in 1..Len(st.output_list) :
                    HasAppId(st.output_list[i], app_id)}
        root == GetParentRoot(st, w)
    IN  IF st.shsurf[w].output # None THEN st.shsurf[w].output
        ELSE IF app_id # NullStr /\ hits # {} THEN st.output_list[Min(hits)]
        ELSE IF root = Hang THEN Hang
        ELSE IF st.shsurf[root].output # None THEN st.shsurf[root].output
        ELSE IF GetFocusedOutput(st) # None THEN GetFocusedOutput(st)
        ELSE GetDefaultOutput(st)

\* kiosk_shell_surface_set_output: the field and its destroy listener.
SetOutput(st, w, o) ==
    [st EXCEPT !.shsurf[w].output = o, !.shsurf[w].output_listener = o]

\* A wrong set_fullscreen, to test the claims against: the call of
\* weston_desktop_surface_set_size is left out.
SetFullscreenMutNoSize(st, w, o) ==
    IF st.hung THEN st
    ELSE LET out == IF o = None THEN FindBestOutput(st, w) ELSE o
         IN  IF out = Hang THEN [st EXCEPT !.hung = TRUE]
             ELSE [SetOutput(st, w, out) EXCEPT !.dsurf[w].fullscreen = TRUE]

\* kiosk_shell_surface_set_fullscreen: set_output(best) followed by the rest
\* of the placement; a walk that never ends leaves the handler hung where it
\* stands.
SetFullscreen(st, w, o) ==
    IF st.hung THEN st
    ELSE LET out == IF o = None THEN FindBestOutput(st, w) ELSE o
         IN  IF out = Hang THEN [st EXCEPT !.hung = TRUE]
             ELSE LET s1 == SetOutput(st, w, out)
                      s2 == [s1 EXCEPT !.dsurf[w].fullscreen = TRUE]
                  IN  IF out # None
                      THEN [s2 EXCEPT !.dsurf[w].size = s2.output_size[out]]
                      ELSE s2

\* kiosk_shell_surface_set_maximized.
SetMaximized(st, w) ==
    IF st.hung THEN st
    ELSE LET out == FindBestOutput(st, w)
         IN  IF out = Hang THEN [st EXCEPT !.hung = TRUE]
             ELSE LET s1 == SetOutput(st, w, out)
                      s2 == [s1 EXCEPT !.dsurf[w].maximized = TRUE]
                  IN  IF out # None
                      THEN [s2 EXCEPT !.dsurf[w].size = s2.output_size[out]]
                      ELSE s2

\* A wrong set_normal, to test the claims against: the call of
\* weston_desktop_surface_set_fullscreen(false) is left out.
SetNormalMutKeepFullscreen(st, w) ==
    IF st.hung THEN st
    ELSE LET out == IF st.shsurf[w].output = None
                    THEN FindBestOutput(st, w) ELSE st.shsurf[w].output
         IN  IF out = Hang THEN [st EXCEPT !.hung = TRUE]
             ELSE LET s1 == IF st.shsurf[w].output = None
                            THEN SetOutput(st, w, out) ELSE st
                  IN  [s1 EXCEPT !.dsurf[w].maximized = FALSE,
                                 !.dsurf[w].size = <<0, 0>>]

\* A wrong set_normal, to test the claims against: a window that has an
\* output is unbound instead of left alone.
SetNormalMutToggleOutput(st, w) ==
    IF st.hung THEN st
    ELSE LET out == IF st.shsurf[w].output = None
                    THEN FindBestOutput(st, w) ELSE None
         IN  IF out = Hang THEN [st EXCEPT !.hung = TRUE]
             ELSE [SetOutput(st, w, out) EXCEPT
                       !.dsurf[w].fullscreen = FALSE,
                       !.dsurf[w].maximized = FALSE,
                       !.dsurf[w].size = <<0, 0>>]

\* kiosk_shell_surface_set_normal.
SetNormal(st, w) ==
    IF st.hung THEN st
    ELSE LET out == IF st.shsurf[w].output = None
                    THEN FindBestOutput(st, w) ELSE st.shsurf[w].output
         IN  IF out = Hang THEN [st EXCEPT !.hung = TRUE]
             ELSE LET s1 == IF st.shsurf[w].output = None
                            THEN SetOutput(st, w, out) ELSE st
                  IN  [s1 EXCEPT !.dsurf[w].fullscreen = FALSE,
                                 !.dsurf[w].maximized = FALSE,
                                 !.dsurf[w].size = <<0, 0>>]

\* A wrong set_parent, to test the claims against: the call of
\* set_output(shsurf, NULL) is left out.
SetParentMutKeepOutput(st, w, p) ==
    IF st.hung THEN st
    ELSE LET s1 == [st EXCEPT !.shsurf[w].parent = p,
                              !.shsurf[w].parent_listener = p]
         IN  IF p # None THEN SetNormal(s1, w)
             ELSE SetFullscreen(s1, w, s1.shsurf[w].output)

\* A wrong set_parent, to test the claims against: a window that loses
\* its parent keeps the placement it has.
SetParentMutOrphanAsIs(st, w, p) ==
    IF st.hung THEN st
    ELSE LET s1 == [st EXCEPT !.shsurf[w].parent = p,
                              !.shsurf[w].parent_listener = p]
         IN  IF p # None THEN SetNormal(SetOutput(s1, w, None), w)
             ELSE s1

\* kiosk_shell_surface_set_parent.
SetParent(st, w, p) ==
    IF st.hung THEN st
    ELSE LET s1 == [st EXCEPT !.shsurf[w].parent = p,
                              !.shsurf[w].parent_listener = p]
         IN  IF p # None THEN SetNormal(SetOutput(s1, w, None), w)
             ELSE SetFullscreen(s1, w, s1.shsurf[w].output)


(***************************************************************************)
(* kiosk_shell_seat                                                        *)
(***************************************************************************)
\* A wrong focus handler, to test the claims against: the old focus is
\* not released.
KeyboardFocusHandlerMutNoDecrement(st, seat) ==
    LET nf == MainSurface(st.seats[seat].kbd_focus)
        s2 == [st EXCEPT !.seats[seat].focused_surface = nf]
        new == IF nf # None THEN GetKioskShellSurface(s2, nf) ELSE None
    IN  IF new = None THEN s2
        ELSE LET c == s2.shsurf[new].focus_count
                 t == [s2 EXCEPT !.shsurf[new].focus_count = c + 1]
             IN  IF c = 0 THEN SetActivated(t, new, TRUE) ELSE t

\* A wrong focus handler, to test the claims against: the window that
\* loses a seat is deactivated whatever its focus_count becomes.
KeyboardFocusHandlerMutEagerDeactivate(st, seat) ==
    LET fs == st.seats[seat].focused_surface
        old == IF fs # None THEN GetKioskShellSurface(st, fs) ELSE None
        s1 == IF old = None THEN st
              ELSE LET c == st.shsurf[old].focus_count - 1
                       t == [st EXCEPT !.shsurf[old].focus_count = c]
                   IN  SetActivated(t, old, FALSE)
        nf == MainSurface(s1.seats[seat].kbd_focus)
        s2 == [s1 EXCEPT !.seats[seat].focused_surface = nf]
        new == IF nf # None THEN GetKioskShellSurface(s2, nf) ELSE None
    IN  IF new = None THEN s2
        ELSE LET c == s2.shsurf[new].focus_count
                 t == [s2 EXCEPT !.shsurf[new].focus_count = c + 1]
             IN  IF c = 0 THEN SetActivated(t, new, TRUE) ELSE t

\* kiosk_shell_seat_handle_keyboard_focus, run when keyboard->focus_signal
\* is emitted: keyboard->focus already holds the new focus.
KeyboardFocusHandler(st, seat) ==
    LET fs == st.seats[seat].focused_surface
        old == IF fs # None THEN GetKioskShellSurface(st, fs) ELSE None
        s1 == IF old = None THEN st
              ELSE LET c == st.shsurf[old].focus_count - 1
                       t == [st EXCEPT !.shsurf[old].focus_count = c]
                   IN  IF c = 0 THEN SetActivated(t, old, FALSE) ELSE t
        nf == MainSurface(s1.seats[seat].kbd_focus)
        s2 == [s1 EXCEPT !.seats[seat].focused_surface = nf]
        new == IF nf # None THEN GetKioskShellSurface(s2, nf) ELSE None
    IN  IF new = None THEN s2
        ELSE LET c == s2.shsurf[new].focus_count
                 t == [s2 EXCEPT !.shsurf[new].focus_count = c + 1]
             IN  IF c = 0 THEN SetActivated(t, new, TRUE) ELSE t

\* weston_keyboard_set_focus: stores the focus and emits focus_signal, which
\* reaches the shell's handler while its listener is subscribed.
KeyboardSetFocus(st, seat, surface) ==
    LET s1 == [st EXCEPT !.seats[seat].kbd_focus = surface]
    IN  IF s1.seats[seat].listening THEN KeyboardFocusHandler(s1, seat)
        ELSE s1

\* weston_view_activate -> weston_seat_set_keyboard_focus: the focus moves
\* only when the seat has a keyboard and it focuses another surface.
ViewActivate(st, surface, seat) ==
    IF st.seats[seat].keyboard /\ st.seats[seat].kbd_focus # surface
    THEN KeyboardSetFocus(st, seat, surface)
    ELSE st

\* wl_list_for_each(seat, &compositor->seat_list, link)
\*     weston_view_activate(view, seat, 0);   for the seats from `seat` on.
RECURSIVE ActivateOnSeats(_, _, _)
ActivateOnSeats(st, surface, seat) ==
    IF seat > MaxSeats THEN st
    ELSE ActivateOnSeats(
             IF st.seats[seat].live THEN ViewActivate(st, surface, seat)
             ELSE st,
             surface, seat + 1)

\* The loop of desktop_surface_removed: the seats whose keyboard focuses
\* `surface` are given `focus_view`.
RECURSIVE RedirectSeats(_, _, _, _)
RedirectSeats(st, surface, focus_view, seat) ==
    IF seat > MaxSeats THEN st
    ELSE RedirectSeats(
             IF /\ st.seats[seat].live
                /\ st.seats[seat].keyboard
                /\ st.seats[seat].kbd_focus = surface
             THEN ViewActivate(st, focus_view, seat)
             ELSE st,
             surface, focus_view, seat + 1)

(***************************************************************************)
(* Window removal                                                          *)
(***************************************************************************)
\* The scan of find_focus_successor over layer positions i.. with the
\* fallback `top_view` found so far.
RECURSIVE SuccessorScan(_, _, _, _, _)
SuccessorScan(st, w, parent_root, i, top_view) ==
    IF i > Len(st.layer) THEN top_view
    ELSE LET view == st.layer[i]
             view_shsurf == GetKioskShellSurface(st, view)
         IN  IF ~st.mapped[view] \/ view = w \/ view_shsurf = None
             THEN SuccessorScan(st, w, parent_root, i + 1, top_view)
             ELSE LET root == GetParentRoot(st, view_shsurf)
                      top == IF top_view = None THEN view ELSE top_view
                  IN  IF root = Hang THEN Hang
                      ELSE IF root = parent_root THEN view
                      ELSE SuccessorScan(st, w, parent_root, i + 1, top)

\* A wrong find_focus_successor, to test the claims against: the top
\* mapped view is taken whatever its root.
FindFocusSuccessorMutTopOnly(st, w) ==
    LET parent_root == GetParentRoot(st, w)
        ok == {i \in 1..Len(st.layer) :
                  st.mapped[st.layer[i]] /\ st.layer[i] # w}
    IN  IF parent_root = Hang THEN Hang
        ELSE IF ok = {} THEN None ELSE st.layer[Min(ok)]

\* A wrong find_focus_successor, to test the claims against: the scan runs
\* from the bottom of the layer to the top.
FindFocusSuccessorMutBottomUp(st, w) ==
    LET parent_root == GetParentRoot(st, w)
        rev == [st EXCEPT !.layer =
                   [i \in 1..Len(st.layer) |-> st.layer[Len(st.layer) + 1 - i]]]
    IN  IF parent_root = Hang THEN Hang
        ELSE SuccessorScan(rev, w, parent_root, 1, None)

\* find_focus_successor(&shell->normal_layer, shsurf): a view (named by its
\* surface), None, or Hang.
FindFocusSuccessor(st, w) ==
    LET parent_root == GetParentRoot(st, w)
    IN  IF parent_root = Hang THEN Hang
        ELSE SuccessorScan(st, w, parent_root, 1, None)

\* A wrong destroy emission, to test the claims against: the children's
\* parent-destroy listeners do nothing.
NotifyParentDestroyMutSkip(st, w, c) == st

\* A wrong parent-destroy listener, to test the claims against: a child of
\* the destroyed window is orphaned instead of given the grandparent.
RECURSIVE NotifyParentDestroyMutOrphan(_, _, _)
NotifyParentDestroyMutOrphan(st, w, c) ==
    IF c > MaxSurfaces THEN st
    ELSE NotifyParentDestroyMutOrphan(
             IF st.shsurf[c].live /\ st.shsurf[c].parent_listener = w
             THEN SetParent(st, c, None)
             ELSE st,
             w, c + 1)

\* wl_signal_emit(&shsurf->destroy_signal): the parent-destroy listeners of
\* the windows subscribed to w, kiosk_shell_surface_notify_parent_destroy.
RECURSIVE NotifyParentDestroy(_, _, _)
NotifyParentDestroy(st, w, c) ==
    IF c > MaxSurfaces THEN st
    ELSE NotifyParentDestroy(
             IF st.shsurf[c].live /\ st.shsurf[c].parent_listener = w
             THEN SetParent(st, c, st.shsurf[st.shsurf[c].parent].parent)
             ELSE st,
             w, c + 1)

\* weston_view_destroy -> weston_view_unmap: a mapped view leaves its layer
\* and the keyboards that focus its surface lose their focus.
RECURSIVE UnfocusSeats(_, _, _)
UnfocusSeats(st, surface, seat) ==
    IF seat > MaxSeats THEN st
    ELSE UnfocusSeats(
             IF /\ st.seats[seat].live
                /\ st.seats[seat].keyboard
                /\ st.seats[seat].kbd_focus = surface
             THEN KeyboardSetFocus(st, seat, None)
             ELSE st,
             surface, seat + 1)

ViewDestroy(st, w) ==
    IF ~st.mapped[w] THEN [st EXCEPT !.view[w] = NoView]
    ELSE UnfocusSeats(
             [st EXCEPT !.mapped[w] = FALSE,
                        !.view[w] = NoView,
                        !.layer = SelectSeq(@, LAMBDA v : v # w)],
             w, 1)

\* What get_kiosk_shell_surface gives for w's surface to a listener of w's
\* destroy_signal: the signal is emitted by the first statement of
\* kiosk_shell_surface_destroy, in the state st the function is entered
\* with, and the user data of the desktop surface is cleared by the second.
AssociationAtEmit(st, w) == GetKioskShellSurface(st, w)

\* kiosk_shell_surface_destroy.
SurfaceDestroy(st, w) ==
    LET s1 == NotifyParentDestroy(st, w, 1)
        s2 == [s1 EXCEPT !.shsurf[w].live = FALSE]
        s3 == ViewDestroy(s2, w)
    IN  IF s1.hung THEN s1
        ELSE [s3 EXCEPT !.shsurf[w] = NoShsurf, !.dsurf[w] = NoDsurf]


(***************************************************************************)
(* View geometry: the positions of the views and the outputs they are on.  *)
(***************************************************************************)
\* Where the compositor puts a new output, and the mode it may change to.
OutputOrigin(o) == <<4 * (o - 1), 0>>
ResizedMode(o) == <<4 * o + 2, 3 * o + 2>>
OutputModes(o) == {OutputMode(o), ResizedMode(o)}

\* The size a client gives its surface when none is asked for (0x0).
PreferredSize == <<2, 2>>

Least(a, b) == IF a <= b THEN a ELSE b
Greatest(a, b) == IF a >= b THEN a ELSE b

\* n / 2 in C: the quotient is truncated toward zero.
Half(n) == IF n >= 0 THEN n \div 2 ELSE -((-n) \div 2)

\* The area that the rectangle at p of size s shares with the one at q of
\* size t.
Overlap(p, s, q, t) ==
    LET w == Least(p[1] + s[1], q[1] + t[1]) - Greatest(p[1], q[1])
        h == Least(p[2] + s[2], q[2] + t[2]) - Greatest(p[2], q[2])
    IN  IF w > 0 /\ h > 0 THEN w * h ELSE 0

\* weston_view_update_transform -> weston_view_assign_output: the view is
\* on the output it shares the largest area with, the first of them in the
\* compositor's list, and on none when it shares no area with any.
AssignOutput(st, w) ==
    LET area(i) == Overlap(st.view[w].pos, st.view[w].size,
                           st.output_pos[st.output_list[i]],
                           st.output_size[st.output_list[i]])
        idx == 1..Len(st.output_list)
        hits == {i \in idx : area(i) > 0 /\ \A j \in idx : area(j) <= area(i)}
    IN  [st EXCEPT !.view[w].output =
            IF hits = {} THEN None ELSE st.output_list[Min(hits)]]

\* center_on_output: the view's surface in the middle of the output; a view
\* without output goes to the origin.
CenterOnOutput(st, w, o) ==
    IF o = None THEN [st EXCEPT !.view[w].pos = <<0, 0>>]
    ELSE [st EXCEPT !.view[w].pos =
             << st.output_pos[o][1]
                   + Half(st.output_size[o][1] - st.view[w].size[1]),
                st.output_pos[o][2]
                   + Half(st.output_size[o][2] - st.view[w].size[2]) >>]

\* kiosk_shell_surface_reconfigure_for_output
ReconfigureForOutput(st, w) ==
    LET o == st.shsurf[w].output
        s1 == IF st.dsurf[w].maximized \/ st.dsurf[w].fullscreen
              THEN [st EXCEPT !.dsurf[w].size = st.output_size[o]]
              ELSE st
    IN  IF o = None THEN st
        ELSE AssignOutput(CenterOnOutput(s1, w, o), w)

\* kiosk_shell_output_recreate_background: a fill of the output's size at
\* the output's position replaces the one there was.
OutputRecreateBackground(st, o) ==
    [st EXCEPT !.background_view[o] =
        [live |-> TRUE, pos |-> st.output_pos[o], size |-> st.output_size[o]]]

\* The loop of kiosk_shell_handle_output_resized over the views of the
\* normal layer, from the i-th on.
RECURSIVE ReconfigureViews(_, _, _)
ReconfigureViews(st, o, i) ==
    IF i > Len(st.layer) THEN st
    ELSE ReconfigureViews(
             IF /\ st.view[st.layer[i]].output = o
                /\ GetKioskShellSurface(st, st.layer[i]) # None
             THEN ReconfigureForOutput(st, st.layer[i])
             ELSE st,
             o, i + 1)

\* The position p moved by d.
Shifted(p, d) == <<p[1] + d[1], p[2] + d[2]>>

\* A wrong pair of loops, to test the claims against: the test of the
\* view's output is left out of the loop over the normal layer.
MoveViewsMutEveryWindow(st, o, d) ==
    [st EXCEPT
        !.background_view =
            [x \in Outputs |->
                IF st.background_view[x].live /\ x = o
                THEN [st.background_view[x] EXCEPT !.pos = Shifted(@, d)]
                ELSE st.background_view[x]],
        !.view =
            [w \in MainSurfaces |->
                IF w \in Range(st.layer)
                THEN [st.view[w] EXCEPT !.pos = Shifted(@, d)]
                ELSE st.view[w]]]

\* The two loops of kiosk_shell_handle_output_moved: the views of the
\* background layer and of the normal layer that are on the output move
\* by (move_x, move_y).  A background view is on the output it was made for.
MoveViews(st, o, d) ==
    [st EXCEPT
        !.background_view =
            [x \in Outputs |->
                IF st.background_view[x].live /\ x = o
                THEN [st.background_view[x] EXCEPT !.pos = Shifted(@, d)]
                ELSE st.background_view[x]],
        !.view =
            [w \in MainSurfaces |->
                IF w \in Range(st.layer) /\ st.view[w].output = o
                THEN [st.view[w] EXCEPT !.pos = Shifted(@, d)]
                ELSE st.view[w]]]

(***************************************************************************)
(* The handlers.                                                           *)
(***************************************************************************)
Init ==
    /\ shsurf = [s \in MainSurfaces |-> NoShsurf]
    /\ dsurf = [s \in MainSurfaces |-> NoDsurf]
    /\ mapped = [s \in MainSurfaces |-> FALSE]
    /\ views = [s \in MainSurfaces |-> NoView]
    /\ background_view = [o \in Outputs |-> NoBackground]
    /\ output_pos = [o \in Outputs |-> <<0, 0>>]
    /\ layer = <<>>
    /\ seats = [i \in Seats |-> NoSeat]
    /\ output_list = <<>>
    /\ output_size = [o \in Outputs |-> <<0, 0>>]
    /\ focused_output = None
    /\ activate_log = <<>>
    /\ event = NoEvent
    /\ hung = FALSE
    /\ probe = NoProbe

\* The app ids a client may give a window (NullStr: none set).
AppIds == {NullStr, <<"a">>, <<"b">>}

\* kiosk_shell_surface_create, with the allocation succeeding.
SurfaceCreate(st, s, app_id) ==
    [st EXCEPT !.shsurf[s] = [NoShsurf EXCEPT !.live = TRUE],
               !.view[s] = [NoView EXCEPT !.created = TRUE],
               !.dsurf[s] = [NoDsurf EXCEPT !.app_id = app_id]]

\* kiosk_shell_surface_create with an allocation that fails: of the view
\* (nothing has been done yet), or of the record (the view has been
\* created and the function returns NULL without it).
Allocations == {"view", "record"}
SurfaceCreateFails(st, s, failed) ==
    IF failed = "view" THEN st
    ELSE [st EXCEPT !.view[s] = [NoView EXCEPT !.created = TRUE]]

\* desktop_surface_added
Added(s, app_id) ==
    /\ Idle
    /\ ~shsurf[s].live
    /\ LET s1 == SetFullscreen(SurfaceCreate(St, s, app_id), s, None)
           s2 == IF s1.hung THEN s1 ELSE ActivateOnSeats(s1, s, 1)
       IN  Commit(s2, [NoEvent EXCEPT !.name = "added", !.surface = s])

\* desktop_surface_added when kiosk_shell_surface_create returns NULL: the
\* handler returns at once.
AddedWithoutMemory(s, failed) ==
    /\ Idle
    /\ ~shsurf[s].live
    /\ ~views[s].created
    /\ Commit(SurfaceCreateFails(St, s, failed),
              [NoEvent EXCEPT !.name = "added_no_memory", !.surface = s])

\* desktop_surface_removed for a surface without record: the handler
\* returns at once, and the desktop surface goes with the views it has.
RemovedWithoutRecord(s) ==
    /\ Idle
    /\ ~shsurf[s].live
    /\ views[s].created
    /\ Commit([St EXCEPT !.view[s] = NoView],
              [NoEvent EXCEPT !.name = "removed_unknown", !.surface = s])

\* desktop_surface_removed
Removed(s) ==
    /\ Idle
    /\ shsurf[s].live
    /\ LET focus_view == FindFocusSuccessor(St, s)
           s1 == IF focus_view = Hang THEN [St EXCEPT !.hung = TRUE]
                 ELSE IF focus_view # None
                 THEN RedirectSeats(St, s, focus_view, 1)
                 ELSE St
           s2 == IF s1.hung THEN s1 ELSE SurfaceDestroy(s1, s)
       IN  Commit(s2, [NoEvent EXCEPT !.name = "removed", !.surface = s,
                                      !.arg = focus_view,
                                      !.parent = shsurf[s].parent,
                                      !.count = s1.shsurf[s].focus_count,
                                      !.linked = AssociationAtEmit(s1, s)])

\* desktop_surface_committed with a surface of non-zero width (a zero width
\* returns at once) and no offset (sx = sy = 0), from a client that is not
\* an Xwayland one and that gives its surface the size it was asked for: a
\* view not yet mapped, or resized while maximized or fullscreen, is
\* centered on the window's output, and a view not yet mapped gets on top
\* of the normal layer.
CommittedHandler(st, s) ==
    LET size == IF st.dsurf[s].size = <<0, 0>> THEN PreferredSize
                ELSE st.dsurf[s].size
        is_resized == size # st.view[s].size
        is_fullscreen == st.dsurf[s].maximized \/ st.dsurf[s].fullscreen
        s1 == [st EXCEPT !.view[s].size = size]
        s2 == IF ~st.mapped[s] \/ (is_resized /\ is_fullscreen)
              THEN AssignOutput(CenterOnOutput(s1, s, s1.shsurf[s].output), s)
              ELSE s1
    IN  IF st.mapped[s] THEN s2
        ELSE [s2 EXCEPT !.layer = <<s>> \o @, !.mapped[s] = TRUE]

Committed(s) ==
    /\ Idle
    /\ shsurf[s].live
    /\ Commit(CommittedHandler(St, s),
              [NoEvent EXCEPT !.name = "committed", !.surface = s])

\* desktop_surface_set_parent: the parent's record, NULL for no parent.
SetParentRequested(s, p) ==
    /\ Idle
    /\ shsurf[s].live
    /\ IF p = None THEN TRUE ELSE shsurf[p].live
    /\ Commit(SetParent(St, s, p),
              [NoEvent EXCEPT !.name = "set_parent", !.surface = s, !.arg = p])

\* A wrong fullscreen handler, to test the claims against: the test of the
\* parent is left out, so that an unfullscreen request makes a root normal.
FullscreenRequestedHandlerMutNoParentTest(st, s, fullscreen, o) ==
    IF fullscreen THEN SetFullscreen(st, s, o)
    ELSE SetNormal(st, s)

\* desktop_surface_fullscreen_requested
FullscreenRequestedHandler(st, s, fullscreen, o) ==
    IF st.shsurf[s].parent = None \/ fullscreen THEN SetFullscreen(st, s, o)
    ELSE SetNormal(st, s)

FullscreenRequested(s, fullscreen, o) ==
    /\ Idle
    /\ shsurf[s].live
    /\ Commit(FullscreenRequestedHandler(St, s, fullscreen, o),
              [NoEvent EXCEPT !.name = IF fullscreen THEN "fullscreen"
                                       ELSE "unfullscreen",
                              !.surface = s, !.arg = o])

\* A wrong maximize handler, to test the claims against: a request on a
\* child is coerced to set_normal whatever it asks for.
MaximizedRequestedHandlerMutChildNormal(st, s, maximized) ==
    IF st.shsurf[s].parent = None THEN SetFullscreen(st, s, None)
    ELSE SetNormal(st, s)

\* A wrong maximize handler, to test the claims against: a request on a
\* root is served as on a child.
MaximizedRequestedHandlerMutRootMaximized(st, s, maximized) ==
    IF maximized THEN SetMaximized(st, s)
    ELSE SetNormal(st, s)

\* desktop_surface_maximized_requested
MaximizedRequestedHandler(st, s, maximized) ==
    IF st.shsurf[s].parent = None THEN SetFullscreen(st, s, None)
    ELSE IF maximized THEN SetMaximized(st, s)
    ELSE SetNormal(st, s)

MaximizedRequested(s, maximized) ==
    /\ Idle
    /\ shsurf[s].live
    /\ Commit(MaximizedRequestedHandler(St, s, maximized),
              [NoEvent EXCEPT !.name = IF maximized THEN "maximize"
                                       ELSE "unmaximize",
                              !.surface = s])

\* kiosk_shell_handle_output_created -> kiosk_shell_output_create
OutputCreated(o) ==
    /\ Idle
    /\ o \notin Range(output_list)
    /\ Commit(OutputRecreateBackground(
                  [St EXCEPT !.output_list = Append(@, o),
                             !.output_size[o] = OutputMode(o),
                             !.output_pos[o] = OutputOrigin(o)], o),
              [NoEvent EXCEPT !.name = "output_created", !.arg = o])

\* A wrong output-destroy notification, to test the claims against: the
\* windows keep the destroyed output.
NotifyOutputDestroyMutSkip(st, o, w) == st

\* kiosk_shell_surface_notify_output_destroy for the windows subscribed to
\* the output's destroy signal.
RECURSIVE NotifyOutputDestroy(_, _, _)
NotifyOutputDestroy(st, o, w) ==
    IF w > MaxSurfaces THEN st
    ELSE NotifyOutputDestroy(
             IF st.shsurf[w].live /\ st.shsurf[w].output_listener = o
             THEN SetOutput(st, w, None)
             ELSE st,
             o, w + 1)

\* The compositor gives the views that were on a removed output the
\* output they are on now.
RECURSIVE ReassignViews(_, _, _)
ReassignViews(st, o, w) ==
    IF w > MaxSurfaces THEN st
    ELSE ReassignViews(
             IF st.view[w].output = o THEN AssignOutput(st, w) ELSE st,
             o, w + 1)

\* The output's destroy signal: kiosk_shell_output_notify_output_destroy
\* -> kiosk_shell_output_destroy (the background view goes with it), and
\* the windows' listeners.  The compositor no longer reports the output as
\* focused.
OutputDestroyed(o) ==
    /\ Idle
    /\ o \in Range(output_list)
    /\ LET s1 == NotifyOutputDestroy(St, o, 1)
           s2 == [s1 EXCEPT !.output_list = SelectSeq(@, LAMBDA x : x # o),
                            !.output_size[o] = <<0, 0>>,
                            !.output_pos[o] = <<0, 0>>,
                            !.background_view[o] = NoBackground,
                            !.focused_output = IF @ = o THEN None ELSE @]
       IN  Commit(ReassignViews(s2, o, 1),
                  [NoEvent EXCEPT !.name = "output_destroyed", !.arg = o])

\* The moves an output makes, and how far from its first position it gets
\* on each axis.
MaxMove == 1
Moves == {<<1, 0>>, <<0, 1>>, <<-1, -1>>}

\* kiosk_shell_handle_output_resized: the compositor has given the output
\* the new mode.
OutputResizedHandler(st, o, mode) ==
    LET s1 == [st EXCEPT !.output_size[o] = mode]
    IN  ReconfigureViews(OutputRecreateBackground(s1, o), o, 1)

OutputResized(o, mode) ==
    /\ Idle
    /\ o \in Range(output_list)
    /\ mode # output_size[o]
    /\ Commit(OutputResizedHandler(St, o, mode),
              [NoEvent EXCEPT !.name = "output_resized", !.arg = o])

\* kiosk_shell_handle_output_moved: the compositor has moved the output by
\* d = (move_x, move_y).
OutputMovedHandler(st, o, d) ==
    MoveViews([st EXCEPT !.output_pos[o] = Shifted(@, d)], o, d)

OutputMoved(o, d) ==
    /\ Idle
    /\ o \in Range(output_list)
    /\ Shifted(output_pos[o], d)[1] - OutputOrigin(o)[1] \in 0..MaxMove
    /\ Shifted(output_pos[o], d)[2] - OutputOrigin(o)[2] \in 0..MaxMove
    /\ Commit(OutputMovedHandler(St, o, d),
              [NoEvent EXCEPT !.name = "output_moved", !.arg = o])

\* The input focus moves to another output (or to none).
FocusOutput(o) ==
    /\ Idle
    /\ o # focused_output
    /\ o \in Range(output_list) \cup {None}
    /\ Commit([St EXCEPT !.focused_output = o],
              [NoEvent EXCEPT !.name = "focus_output", !.arg = o])

\* A wrong capability handler, to test the claims against: the test that
\* the listener is not linked yet is left out.
CapsChangedHandlerMutNoEmptyTest(st, i) ==
    IF st.seats[i].keyboard
    THEN [st EXCEPT !.seats[i].twice = @ \/ st.seats[i].listening,
                    !.seats[i].listening = TRUE]
    ELSE [st EXCEPT !.seats[i].listening = FALSE]

\* kiosk_shell_seat_handle_caps_changed
CapsChangedHandler(st, i) ==
    IF st.seats[i].keyboard /\ ~st.seats[i].listening
    THEN [st EXCEPT !.seats[i].listening = TRUE]
    ELSE IF ~st.seats[i].keyboard
    THEN [st EXCEPT !.seats[i].listening = FALSE]
    ELSE st

\* kiosk_shell_handle_seat_created -> kiosk_shell_seat_create; the call of
\* kiosk_shell_seat_handle_caps_changed subscribes the focus listener when
\* the seat has a keyboard.
SeatCreated(i, keyboard) ==
    /\ Idle
    /\ ~seats[i].live
    /\ Commit(CapsChangedHandler(
                  [St EXCEPT !.seats[i] = [NoSeat EXCEPT !.live = TRUE,
                                                        !.keyboard = keyboard]],
                  i),
              [NoEvent EXCEPT !.name = "seat_created", !.seat = i])

\* The seat's capabilities change and updated_caps_signal is emitted; the
\* seat has a keyboard afterwards or not.  A seat that loses its keyboard
\* has the keyboard's focus cleared first.
SeatCapsChanged(i, keyboard) ==
    /\ Idle
    /\ seats[i].live
    /\ LET s1 == IF seats[i].keyboard /\ ~keyboard
                 THEN KeyboardSetFocus(St, i, None) ELSE St
           s2 == [s1 EXCEPT !.seats[i].keyboard = keyboard]
       IN  Commit(CapsChangedHandler(s2, i),
                  [NoEvent EXCEPT !.name = "caps_changed", !.seat = i])

\* kiosk_shell_seat_handle_destroy: the three listeners are removed and the
\* record is freed.
SeatHandleDestroy(st, i) == [st EXCEPT !.seats[i] = NoSeat]

\* The seat's destroy_signal.
SeatDestroyed(i) ==
    /\ Idle
    /\ seats[i].live
    /\ Commit(SeatHandleDestroy(St, i),
              [NoEvent EXCEPT !.name = "seat_destroyed", !.seat = i,
                              !.surface = seats[i].focused_surface])

\* The compositor moves a seat's keyboard focus (weston_keyboard_set_focus)
\* to a surface of a window, to a subsurface of one, or to nothing.
KeyboardFocus(i, surface) ==
    /\ Idle
    /\ seats[i].live /\ seats[i].keyboard
    /\ IF surface = None THEN TRUE
       ELSE GetKioskShellSurface(St, MainSurface(surface)) # None
    /\ Commit(KeyboardSetFocus(St, i, surface),
              [NoEvent EXCEPT !.name = "keyboard_focus", !.seat = i,
                              !.surface = surface])

\* The handler returns to the event loop; what is recorded of it (event,
\* activate_log) is dropped.  The shell's own state does not change.
Return ==
    /\ ~hung
    /\ event # NoEvent
    /\ event' = NoEvent
    /\ activate_log' = <<>>
    /\ UNCHANGED <<shsurf, dsurf, mapped, views, background_view, output_pos,
                   layer, seats, output_list,
                   output_size, focused_output, hung, probe>>

Next ==
    \/ Return
    \/ \E s \in MainSurfaces, a \in AppIds : Added(s, a)
    \/ \E s \in MainSurfaces : Removed(s)
    \/ \E s \in MainSurfaces : Committed(s)
    \/ \E s \in MainSurfaces, p \in MainSurfaces \cup {None} :
          SetParentRequested(s, p)
    \/ \E s \in MainSurfaces, f \in BOOLEAN, o \in Outputs \cup {None} :
          o \in Range(output_list) \cup {None} /\ FullscreenRequested(s, f, o)
    \/ \E s \in MainSurfaces, m \in BOOLEAN : MaximizedRequested(s, m)
    \/ \E o \in Outputs : OutputCreated(o)
    \/ \E o \in Outputs : OutputDestroyed(o)
    \/ \E o \in Outputs \cup {None} : FocusOutput(o)
    \/ \E i \in Seats, k \in BOOLEAN : SeatCreated(i, k)
    \/ \E i \in Seats, s \in Surfaces \cup {None} : KeyboardFocus(i, s)

Spec == Init /\ [][Next]_vars


(***************************************************************************)
(* kiosk_shell_output_has_app_id by itself: one call for each affinity     *)
(* list and each app id of up to MaxStrLen characters over the alphabet,   *)
(* and for the lists and app ids of longer names given below.              *)
(***************************************************************************)
MaxStrLen == 3
Alphabet == {"a", "b", Comma}
Strings(n) == UNION {[1..k -> Alphabet] : k \in 0..n}

VlcMpv == <<"v", "l", "c", ",", "m", "p", "v">>
FooBar == <<"f", "o", "o", ",", "b", "a", "r">>
NamedAppIds ==
    { <<"v", "l", "c">>, <<"m", "p", "v">>, <<"v", "l">>,
      <<"m", "p", "v", "x">>, <<"c", "v", "l", "c">>, <<"o", "o">> }

\* shoutput->app_ids: NULL when the output's section has no app-ids key.
ProbeLists == Strings(MaxStrLen) \cup {NullStr, VlcMpv, FooBar}
\* app_id: never NULL, find_best_output tests it before the call.
ProbeAppIds == Strings(MaxStrLen) \cup NamedAppIds

InitAppId ==
    /\ shsurf = [s \in MainSurfaces |-> NoShsurf]
    /\ dsurf = [s \in MainSurfaces |-> NoDsurf]
    /\ mapped = [s \in MainSurfaces |-> FALSE]
    /\ views = [s \in MainSurfaces |-> NoView]
    /\ background_view = [o \in Outputs |-> NoBackground]
    /\ output_pos = [o \in Outputs |-> <<0, 0>>]
    /\ layer = <<>>
    /\ seats = [i \in Seats |-> NoSeat]
    /\ output_list = <<>>
    /\ output_size = [o \in Outputs |-> <<0, 0>>]
    /\ focused_output = None
    /\ activate_log = <<>>
    /\ event = NoEvent
    /\ hung = FALSE
    /\ \E l \in ProbeLists, a \in ProbeAppIds :
          probe = [app_ids |-> l, app_id |-> a, result |-> "none"]

\* What a call can give: the value it returns, and for a search that has
\* left the string anything the over-read may lead to.
ProbeResults(outcome) ==
    IF outcome = "ub" THEN {"true", "false", "crash"} ELSE {outcome}

\* kiosk_shell_output_has_app_id(shoutput, app_id)
HasAppIdCall ==
    /\ probe.result = "none"
    /\ probe.app_id # NullStr
    /\ \E r \in ProbeResults(HasAppIdOutcome(probe.app_ids, probe.app_id)) :
          probe' = [probe EXCEPT !.result = r]
    /\ UNCHANGED <<shsurf, dsurf, mapped, views, background_view, output_pos,
                   layer, seats, output_list,
                   output_size, focused_output, activate_log, event, hung>>

SpecAppId == InitAppId /\ [][HasAppIdCall]_vars

(***************************************************************************)
(* Placement alone: windows, parents and outputs, with no seat created, so *)
(* that no focus changes.  MaxPlaced windows and every output.              *)
(***************************************************************************)
\* A set_parent request that keeps the parent relation a forest: the parent
\* is another window and not one of the window's own descendants.
RECURSIVE IsAncestor(_, _, _)
IsAncestor(a, w, fuel) ==
    IF fuel = 0 \/ shsurf[w].parent = None THEN FALSE
    ELSE IF shsurf[w].parent = a THEN TRUE
    ELSE IsAncestor(a, shsurf[w].parent, fuel - 1)

KeepsForest(s, p) ==
    IF p = None THEN TRUE
    ELSE p # s /\ ~IsAncestor(s, p, MaxSurfaces)

\* The app id the client of each surface sets.
ClientAppId(s) ==
    CASE s = 1 -> <<"a">>
      [] s = 2 -> <<"b">>
      [] OTHER -> NullStr

MaxPlaced == 2
PlacedSurfaces == 1..MaxPlaced

PlacementNext ==
    \/ Return
    \/ \E s \in PlacedSurfaces, a \in AppIds : Added(s, a)
    \/ \E s \in PlacedSurfaces : Removed(s)
    \/ \E s \in PlacedSurfaces, p \in PlacedSurfaces \cup {None} :
          KeepsForest(s, p) /\ SetParentRequested(s, p)
    \/ \E s \in PlacedSurfaces, f \in BOOLEAN, o \in Outputs \cup {None} :
          o \in Range(output_list) \cup {None} /\ FullscreenRequested(s, f, o)
    \/ \E s \in PlacedSurfaces, m \in BOOLEAN : MaximizedRequested(s, m)
    \/ \E o \in Outputs : OutputCreated(o)
    \/ \E o \in Outputs : OutputDestroyed(o)
    \/ \E o \in Outputs \cup {None} : FocusOutput(o)

SpecPlacement == Init /\ [][PlacementNext]_vars

(***************************************************************************)
(* The window hierarchy: every window, chains of parents, and the outputs  *)
(* up to MaxHierOutputs.                                                   *)
(***************************************************************************)
MaxHierOutputs == 1
HierOutputs == 1..MaxHierOutputs

HierarchyNext ==
    \/ Return
    \/ \E s \in MainSurfaces : Added(s, ClientAppId(s))
    \/ \E s \in MainSurfaces : Removed(s)
    \/ \E s \in MainSurfaces, p \in MainSurfaces \cup {None} :
          KeepsForest(s, p) /\ SetParentRequested(s, p)
    \/ \E s \in MainSurfaces, f \in BOOLEAN, o \in HierOutputs \cup {None} :
          o \in Range(output_list) \cup {None} /\ FullscreenRequested(s, f, o)
    \/ \E s \in MainSurfaces, m \in BOOLEAN : MaximizedRequested(s, m)
    \/ \E o \in HierOutputs : OutputCreated(o)
    \/ \E o \in HierOutputs : OutputDestroyed(o)

SpecHierarchy == Init /\ [][HierarchyNext]_vars

(***************************************************************************)
(* Focus with windows that stay: seats, windows added and mapped, and the  *)
(* keyboard focus moving between them.  No output is registered.           *)
(***************************************************************************)
FocusNext ==
    \/ Return
    \/ \E s \in MainSurfaces : Added(s, NullStr)
    \/ \E s \in MainSurfaces : Committed(s)
    \/ \E i \in Seats, k \in BOOLEAN : SeatCreated(i, k)
    \/ \E i \in Seats, s \in Surfaces \cup {None} : KeyboardFocus(i, s)

SpecFocus == Init /\ [][FocusNext]_vars

(***************************************************************************)
(* Focus with windows that come and go: the above with set_parent and      *)
(* window removal.                                                         *)
(***************************************************************************)
RemovalNext ==
    \/ Return
    \/ \E s \in MainSurfaces : Added(s, NullStr)
    \/ \E s \in MainSurfaces : Committed(s)
    \/ \E s \in MainSurfaces, p \in MainSurfaces \cup {None} :
          KeepsForest(s, p) /\ SetParentRequested(s, p)
    \/ \E s \in MainSurfaces : Removed(s)
    \/ \E i \in Seats : SeatCreated(i, TRUE)
    \/ \E i \in Seats, s \in MainSurfaces \cup {None} : KeyboardFocus(i, s)

SpecRemoval == Init /\ [][RemovalNext]_vars

(***************************************************************************)
(* Claims about the focus bookkeeping.                                     *)
(***************************************************************************)
\* The seats whose recorded focused surface resolves to window w.
SeatsFocusing(w) ==
    {i \in Seats : /\ seats[i].live
                   /\ seats[i].focused_surface # None
                   /\ GetKioskShellSurface(St, seats[i].focused_surface) = w}

\* C1: after any sequence of keyboard focus changes on any of the seats,
\* every window's focus_count is the number of seats whose recorded focused
\* surface resolves to that window.
C1_FocusCountMatchesSeats ==
    \A w \in MainSurfaces :
        shsurf[w].live => shsurf[w].focus_count = Cardinality(SeatsFocusing(w))

\* Two seats have swapped their focus between two windows: the last focus
\* change deactivated nothing and each window is counted once.
C1_Witness ==
    /\ event.name = "keyboard_focus"
    /\ event.seat = 2
    /\ seats[1].focused_surface = 2
    /\ seats[2].focused_surface = 1
    /\ seats[2].kbd_focus = SubSurface
    /\ shsurf[1].focus_count = 1
    /\ shsurf[2].focus_count = 1
    /\ activate_log = <<<<1, TRUE>>>>

(***************************************************************************)
(* Claims about placement and the window hierarchy.                        *)
(***************************************************************************)
\* Window w has a parent and is in Fullscreen placement.
ChildFullscreen(sh, ds, w) ==
    sh[w].live /\ sh[w].parent # None /\ ds[w].fullscreen

RootAncestor(w) ==
    CHOOSE r \in MainSurfaces :
        /\ shsurf[r].parent = None
        /\ IF r = w THEN TRUE ELSE IsAncestor(r, w, MaxSurfaces)

\* The registered outputs whose affinity list contains w's app id, as
\* positions of the output list.
AffinityHits(w) ==
    {i \in 1..Len(output_list) :
        dsurf[w].app_id # NullStr /\ HasAppId(output_list[i], dsurf[w].app_id)}

\* The candidates of the selection policy for w, in priority order.
PriorityCandidates(w) ==
    << shsurf[w].output,
       IF AffinityHits(w) = {} THEN None
       ELSE output_list[CHOOSE i \in AffinityHits(w) :
                            \A j \in AffinityHits(w) : i <= j],
       shsurf[RootAncestor(w)].output,
       focused_output,
       IF output_list = <<>> THEN None ELSE output_list[1] >>

\* The first candidate there is, None when there is none.
FirstAvailable(c) ==
    IF \A i \in 1..Len(c) : c[i] = None THEN None
    ELSE c[CHOOSE i \in 1..Len(c) :
               c[i] # None /\ \A j \in 1..(i - 1) : c[j] = None]

\* The requests that place a window without naming an output.
PlacementRequests == {"fullscreen", "unfullscreen", "maximize", "unmaximize"}

\* C3: find_best_output(w) is the first available of w's bound output, the
\* first registered output whose affinity list contains w's app id, the
\* bound output of w's root ancestor, the focused output and the default
\* output, and none when there is none of them; a request that places w
\* without naming an output binds w to exactly that output.
C3_FindBestOutputPriority ==
    [][\A w \in MainSurfaces :
          (/\ event'.name \in PlacementRequests
           /\ event'.surface = w
           /\ event'.arg = None)
          => /\ FindBestOutput(St, w) = FirstAvailable(PriorityCandidates(w))
             /\ shsurf'[w].output = FirstAvailable(PriorityCandidates(w))]_vars

\* A child without affinity has been maximized onto its root's output while
\* another output holds the input focus and a third choice is the default.
C3_Witness ==
    /\ event.name = "maximize"
    /\ event.surface = 2
    /\ shsurf[2].parent = 1
    /\ dsurf[2].app_id = NullStr
    /\ dsurf[2].maximized
    /\ shsurf[1].output = 2
    /\ shsurf[2].output = 2
    /\ focused_output = 1
    /\ output_list = <<1, 2>>

(***************************************************************************)
(* Claims about app id matching.                                           *)
(***************************************************************************)
\* The comma-separated tokens of an affinity list.
RECURSIVE Tokens(_)
Tokens(s) ==
    LET commas == {i \in 1..Len(s) : s[i] = Comma}
    IN  IF commas = {} THEN {s}
        ELSE LET i == CHOOSE c \in commas : \A d \in commas : c <= d
             IN  {SubSeq(s, 1, i - 1)} \cup Tokens(SubSeq(s, i + 1, Len(s)))

\* C4 as stated: kiosk_shell_output_has_app_id returns true exactly when the
\* app id equals one of the comma-separated tokens of the output's affinity
\* list, for every app id and every list over the alphabet, and false for an
\* output without a list.
C4_TrueExactlyForTokens ==
    probe.result # "none" =>
        probe.result =
            IF /\ probe.app_ids # NullStr
               /\ probe.app_id \in Tokens(probe.app_ids)
            THEN "true" ELSE "false"

\* The call with list "a" and the empty app id has moved its cursor past the
\* terminator of the list and over-read it.
C4_Witness ==
    /\ probe.app_ids = <<"a">>
    /\ probe.app_id = <<>>
    /\ HasAppIdOutcome(probe.app_ids, probe.app_id) = "ub"
    /\ probe.result = "crash"

\* Output o's affinity list has app id a among its comma-separated tokens.
ListContains(o, a) ==
    /\ a # NullStr
    /\ OutputAppIds(o) # NullStr
    /\ a \in Tokens(OutputAppIds(o))

\* C5: when a window is added while two outputs are registered and the
\* affinity list of only one of them contains the window's app id, the
\* window ends as a root bound to that output, in Fullscreen placement, with
\* the output's width and height as its requested size, whichever output is
\* focused and whichever is the default.
C5_AddedBindsToAffinityOutput ==
    \A w \in MainSurfaces, o \in Outputs :
        (/\ event.name = "added"
         /\ event.surface = w
         /\ Len(output_list) = 2
         /\ o \in Range(output_list)
         /\ \A x \in Range(output_list) :
               ListContains(x, dsurf[w].app_id) <=> x = o)
        => /\ shsurf[w].parent = None
           /\ shsurf[w].output = o
           /\ dsurf[w].fullscreen
           /\ dsurf[w].size = output_size[o]
           /\ dsurf[w].size = OutputMode(o)

\* A window with app id "a" has been added while output 1 is both the
\* default and the focused output; only output 2 lists "a".
C5_Witness ==
    /\ event.name = "added"
    /\ event.surface = 1
    /\ dsurf[1].app_id = <<"a">>
    /\ output_list = <<1, 2>>
    /\ focused_output = 1
    /\ ListContains(2, <<"a">>) /\ ~ListContains(1, <<"a">>)
    /\ shsurf[1].output = 2
    /\ dsurf[1].fullscreen
    /\ dsurf[1].size = <<8, 6>>

\* The handler that just ran is set_parent(w, p) with a parent p.
GivenParent(ev, w, p) ==
    ev.name = "set_parent" /\ ev.surface = w /\ ev.arg = p /\ p # None

\* Window p is a root in Fullscreen placement on some output.
RootFullscreenOnOutput(sh, ds, p) ==
    sh[p].live /\ sh[p].parent = None /\ ds[p].fullscreen /\ sh[p].output # None

\* C6 as stated: after W2 is given the parent W1, a root that is Fullscreen
\* on an output, W2 is in Normal placement and bound to no output.
C6_ChildLeftWithoutOutput ==
    \A w \in MainSurfaces, p \in MainSurfaces :
        (GivenParent(event, w, p) /\ RootFullscreenOnOutput(shsurf, dsurf, p))
        => /\ ~dsurf[w].fullscreen /\ ~dsurf[w].maximized
           /\ shsurf[w].output = None

\* C6, amended: when W2 is given the parent W1, a root that is Fullscreen on
\* output O1, W2 ends in Normal placement (neither fullscreen nor maximized,
\* size 0x0) and is bound at once to the first registered output whose
\* affinity list contains W2's app id, and to O1 when there is none; W1's
\* record and placement are unchanged.
C6_ChildNormalOnBestOutput ==
    [][\A w \in MainSurfaces, p \in MainSurfaces :
          (GivenParent(event', w, p) /\ RootFullscreenOnOutput(shsurf, dsurf, p))
          => /\ shsurf'[w].parent = p
             /\ ~dsurf'[w].fullscreen /\ ~dsurf'[w].maximized
             /\ dsurf'[w].size = <<0, 0>>
             /\ shsurf'[w].output =
                   FirstAvailable(<<PriorityCandidates(w)[2], shsurf[p].output>>)
             /\ shsurf'[p] = shsurf[p]
             /\ dsurf'[p] = dsurf[p]]_vars

\* Window 2, fullscreen on the focused output 2 before, has been given the
\* parent 1 and now sits in Normal placement on its parent's output 1.
C6_Witness ==
    /\ GivenParent(event, 2, 1)
    /\ RootFullscreenOnOutput(shsurf, dsurf, 1)
    /\ shsurf[1].output = 1
    /\ dsurf[2].app_id = NullStr
    /\ focused_output = 2
    /\ shsurf[2].output = 1
    /\ ~dsurf[2].fullscreen
    /\ dsurf[2].size = <<0, 0>>

(***************************************************************************)
(* Claims about window removal.                                            *)
(***************************************************************************)
\* The handler that just ran removed window w.
RemovedWindow(ev, w) == ev.name = "removed" /\ ev.surface = w

\* The seats whose keyboard focus is the surface of window w.
SeatsWithKeyboardOn(w) ==
    {i \in Seats : seats[i].live /\ seats[i].keyboard /\ seats[i].kbd_focus = w}

\* The first mapped window in stacking order other than w, None without one.
FirstMappedBut(w) ==
    LET others == SelectSeq(layer, LAMBDA v : v # w /\ mapped[v])
    IN  IF others = <<>> THEN None ELSE Head(others)

\* What the claim names as the successor of child w of root p.
ClaimedSuccessor(w, p) == IF mapped[p] THEN p ELSE FirstMappedBut(w)

\* The seats focused on w now focus succ, whose focus_count has grown by
\* their number.
RedirectedTo(w, succ) ==
    /\ \A i \in SeatsWithKeyboardOn(w) :
          seats'[i].kbd_focus = succ /\ seats'[i].focused_surface = succ
    /\ shsurf'[succ].focus_count =
          shsurf[succ].focus_count + Cardinality(SeatsWithKeyboardOn(w))

\* C7 as stated: when child W2 of root W1 is removed while W1 has no other
\* children, every seat whose keyboard focus is W2 is redirected to W1 if W1
\* is mapped, otherwise to the first mapped window in stacking order, and
\* the successor's focus_count grows by the number of redirected seats.
C7_RedirectedToParent ==
    [][\A w \in MainSurfaces, p \in MainSurfaces :
          (/\ RemovedWindow(event', w)
           /\ shsurf[w].parent = p
           /\ shsurf[p].parent = None
           /\ \A c \in MainSurfaces \ {w} : shsurf[c].parent # p
           /\ ClaimedSuccessor(w, p) # None)
          => RedirectedTo(w, ClaimedSuccessor(w, p))]_vars

\* C7, amended: the above when W2 is the only descendant of W1, that is when
\* W1 has no other children and W2 has no children of its own.
C7_RedirectedToParentOfOnlyDescendant ==
    [][\A w \in MainSurfaces, p \in MainSurfaces :
          (/\ RemovedWindow(event', w)
           /\ shsurf[w].parent = p
           /\ shsurf[p].parent = None
           /\ \A c \in MainSurfaces \ {w} : shsurf[c].parent \notin {p, w}
           /\ ClaimedSuccessor(w, p) # None)
          => RedirectedTo(w, ClaimedSuccessor(w, p))]_vars

\* Child 2 of the mapped root 1 has been removed while both seats focused
\* it and a third window lay on top: both seats now focus window 1.
C7_Witness ==
    /\ RemovedWindow(event, 2)
    /\ event.parent = 1
    /\ event.arg = 1
    /\ shsurf[1].parent = None
    /\ shsurf[3].live /\ shsurf[3].parent = None
    /\ layer = <<3, 1>>
    /\ seats[1].kbd_focus = 1 /\ seats[1].focused_surface = 1
    /\ seats[2].kbd_focus = 1 /\ seats[2].focused_surface = 1
    /\ shsurf[1].focus_count = 2
    /\ activate_log = <<<<1, TRUE>>, <<2, FALSE>>>>

(***************************************************************************)
(* Claims about output destruction.                                        *)
(***************************************************************************)
\* The handlers called for window w that place it: the placement requests
\* and set_parent.
PlacementCallOn(ev, w) ==
    ev.surface = w /\ ev.name \in PlacementRequests \cup {"set_parent"}

\* The handler that just ran is a fullscreen request for w naming no output,
\* that is set_fullscreen(w, NULL), made while w was a root without output
\* that still had the fullscreen size of an output destroyed under it.
RefullscreenOfUnbound(w) ==
    /\ event'.name \in {"fullscreen", "unfullscreen"}
    /\ event'.surface = w
    /\ event'.arg = None
    /\ shsurf[w].parent = None
    /\ shsurf[w].output = None
    /\ dsurf[w].fullscreen
    /\ dsurf[w].size # <<0, 0>>

\* Output o has been destroyed while root w was Fullscreen on it: w is
\* bound to no output.
UnboundByDestroy(w) ==
    (/\ event'.name = "output_destroyed"
     /\ shsurf[w].live /\ shsurf[w].parent = None /\ dsurf[w].fullscreen
     /\ shsurf[w].output = event'.arg)
    => shsurf'[w].output = None

\* A root bound to no output stays so until a placement call is made on it.
UnboundUntilPlaced(w) ==
    (/\ shsurf[w].live /\ shsurf[w].parent = None /\ shsurf[w].output = None
     /\ shsurf'[w].live /\ shsurf'[w].output # None)
    => PlacementCallOn(event', w)

\* C8 as stated: when output O1 is destroyed while root W1 is Fullscreen on
\* it, W1's bound output becomes none and stays none until the next explicit
\* placement call; a following set_fullscreen(W1, none) binds W1 to the
\* focused output, else to the default output, a live output whenever one
\* is registered.
C8_RebindsToFocusedElseDefault ==
    [][\A w \in MainSurfaces :
          /\ UnboundByDestroy(w)
          /\ UnboundUntilPlaced(w)
          /\ RefullscreenOfUnbound(w) =>
                /\ shsurf'[w].output =
                      FirstAvailable(<<PriorityCandidates(w)[4],
                                       PriorityCandidates(w)[5]>>)
                /\ output_list # <<>> => shsurf'[w].output \in Range(output_list)
      ]_vars

\* C8, amended: as above, but the following set_fullscreen(W1, none) binds
\* W1 to the first registered output whose affinity list contains W1's app
\* id, and only without one to the focused output, else the default output.
C8_RebindsToAffinityElseFocusedElseDefault ==
    [][\A w \in MainSurfaces :
          /\ UnboundByDestroy(w)
          /\ UnboundUntilPlaced(w)
          /\ RefullscreenOfUnbound(w) =>
                /\ shsurf'[w].output =
                      FirstAvailable(<<PriorityCandidates(w)[2],
                                       PriorityCandidates(w)[4],
                                       PriorityCandidates(w)[5]>>)
                /\ output_list # <<>> => shsurf'[w].output \in Range(output_list)
      ]_vars

\* Output 1 has just been destroyed under root window 1, which still has
\* the fullscreen size of output 1 and is bound to nothing, while output 2
\* lives on.
C8_Witness ==
    /\ event.name = "output_destroyed"
    /\ event.arg = 1
    /\ shsurf[1].live /\ shsurf[1].parent = None
    /\ shsurf[1].output = None /\ shsurf[1].output_listener = None
    /\ dsurf[1].fullscreen
    /\ dsurf[1].size = OutputMode(1)
    /\ output_list = <<2>>

(***************************************************************************)
(* Claims about the focus of a removed window.                             *)
(***************************************************************************)
\* The number of set_activated(on) commands the last handler issued for w.
ActivateCommands(log, w, on) ==
    Cardinality({k \in 1..Len(log) : log[k] = <<w, on>>})

\* Window w is focused by exactly two seats: their keyboards focus its
\* surface, their records name it and its focus_count is two.
FocusedByTwoSeats(w) ==
    /\ shsurf[w].live
    /\ Cardinality(SeatsWithKeyboardOn(w)) = 2
    /\ SeatsFocusing(w) = SeatsWithKeyboardOn(w)
    /\ shsurf[w].focus_count = 2

\* C9 as stated: when a window focused by two seats is removed, its
\* focus_count has been decremented to zero when the record is freed and
\* exactly one set_activated(false) has been issued for it, whether or not
\* there is a focus successor.
C9_RemovalDeactivatesOnce ==
    [][\A w \in MainSurfaces :
          (RemovedWindow(event', w) /\ FocusedByTwoSeats(w))
          => /\ event'.count = 0
             /\ ActivateCommands(activate_log', w, FALSE) = 1]_vars

\* The only window, focused by both seats and mapped, has been removed:
\* there was no successor, no command was issued, the record was freed with
\* a focus_count of two and the unmapping of its view cleared the seats.
C9_Witness ==
    /\ RemovedWindow(event, 1)
    /\ event.arg = None
    /\ event.count = 2
    /\ activate_log = <<>>
    /\ \A i \in Seats : seats[i].live /\ seats[i].focused_surface = None
    /\ \A w \in MainSurfaces : ~shsurf[w].live

\* C10 as stated: after a window is removed no seat's focus record refers
\* to the removed window's surface any more.
C10_NoSeatRefersToRemoved ==
    \A w \in MainSurfaces :
        RemovedWindow(event, w) =>
            \A i \in Seats : seats[i].live => seats[i].focused_surface # w

\* A window has been removed before its first commit, with no other window
\* to take the focus: the seat's record and its keyboard still name the
\* surface, and no window is left.
C10_Witness ==
    /\ RemovedWindow(event, 1)
    /\ event.arg = None
    /\ seats[1].live
    /\ seats[1].focused_surface = 1
    /\ seats[1].kbd_focus = 1
    /\ ~shsurf[1].live
    /\ ~mapped[1]
    /\ layer = <<>>

(***************************************************************************)
(* Claims about the placement requests.                                    *)
(***************************************************************************)
\* The state of window w that a placement call can change: its record
\* (parent, bound output, destroy subscriptions) and the placement and size
\* commanded on its desktop surface.
WindowState(st, w) == <<st.shsurf[w], st.dsurf[w]>>

\* C11: for any window in any reachable state, calling set_normal twice in
\* a row gives the same window state (placement, bound output, destroy
\* subscriptions, requested size) as calling it once, and leaves every
\* other window as one call does.
C11_SetNormalIdempotent ==
    \A w \in MainSurfaces :
        shsurf[w].live =>
            LET once == SetNormal(St, w)
                twice == SetNormal(once, w)
            IN  /\ WindowState(twice, w) = WindowState(once, w)
                /\ twice.shsurf = once.shsurf
                /\ twice.dsurf = once.dsurf

\* A maximized child without output, in a state where set_normal binds it
\* to its root's output and changes its placement and size; the handler
\* that just ran, an unfullscreen request on another child, was set_normal.
C11_Witness ==
    /\ event.name = "unfullscreen"
    /\ event.surface = 3
    /\ shsurf[3].parent # None
    /\ shsurf[2].live /\ shsurf[2].parent = 1
    /\ dsurf[2].maximized
    /\ shsurf[2].output = None
    /\ shsurf[1].output = 1
    /\ WindowState(SetNormal(St, 2), 2) # WindowState(St, 2)
    /\ SetNormal(St, 2).shsurf[2].output = 1
    /\ WindowState(SetNormal(St, 3), 3) = WindowState(St, 3)

\* The three placements, read from the states commanded on the desktop
\* surface: set_fullscreen and set_maximized each set one state and
\* set_normal clears both.
InFullscreen(ds, w) == ds[w].fullscreen
InMaximized(ds, w) == ds[w].maximized
InNormal(ds, w) == ~ds[w].fullscreen /\ ~ds[w].maximized

\* A request named n has just been handled for window w.
RequestOn(ev, n, w) == ev.name = n /\ ev.surface = w

C13_RootMaximizeGivesMaximized ==
    [][\A w \in MainSurfaces :
          (RequestOn(event', "maximize", w) /\ shsurf[w].parent = None)
          => InMaximized(dsurf', w) /\ ~InFullscreen(dsurf', w)]_vars

\* C13, amended: a maximize request on a root window applies Fullscreen
\* placement again: the fullscreen state is set, the window is bound to its
\* best output and, when there is one, sized to it; the maximized state is
\* not touched.
C13_RootMaximizeGivesFullscreen ==
    [][\A w \in MainSurfaces :
          (RequestOn(event', "maximize", w) /\ shsurf[w].parent = None)
          => LET best == FirstAvailable(PriorityCandidates(w))
             IN  /\ InFullscreen(dsurf', w)
                 /\ dsurf'[w].maximized = dsurf[w].maximized
                 /\ shsurf'[w].output = best
                 /\ dsurf'[w].size = IF best = None THEN dsurf[w].size
                                     ELSE output_size[best]]_vars

\* A root has handled a maximize request and is fullscreen on its output,
\* not maximized.
C13_Witness ==
    /\ RequestOn(event, "maximize", 1)
    /\ shsurf[1].live /\ shsurf[1].parent = None
    /\ InFullscreen(dsurf, 1)
    /\ ~InMaximized(dsurf, 1)
    /\ shsurf[1].output = 1
    /\ dsurf[1].size = OutputMode(1)

\* The requests that ask a window to leave Fullscreen or Maximized placement.
LeaveRequests == {"unfullscreen", "unmaximize"}

\* C14 as stated: an unfullscreen or unmaximize request on a window in
\* Fullscreen or Maximized placement moves it to Normal placement, for root
\* windows and child windows alike.
C14_LeaveRequestGivesNormal ==
    [][\A w \in MainSurfaces :
          (/\ event'.name \in LeaveRequests
           /\ event'.surface = w
           /\ ~InNormal(dsurf, w))
          => InNormal(dsurf', w)]_vars

\* C14, amended: an unfullscreen or unmaximize request on a window in
\* Fullscreen or Maximized placement moves it to Normal placement when the
\* window has a parent; on a root window it applies Fullscreen placement
\* again and leaves the maximized state as it was.
C14_LeaveRequestNormalForChildOnly ==
    [][\A w \in MainSurfaces :
          (/\ event'.name \in LeaveRequests
           /\ event'.surface = w
           /\ ~InNormal(dsurf, w))
          => IF shsurf[w].parent # None
             THEN InNormal(dsurf', w)
             ELSE /\ InFullscreen(dsurf', w)
                  /\ dsurf'[w].maximized = dsurf[w].maximized]_vars

\* A root, fullscreen since it was added, has handled an unfullscreen
\* request and is still fullscreen on its output, while a child that was
\* maximized is in Normal placement.
C14_Witness ==
    /\ RequestOn(event, "unfullscreen", 1)
    /\ shsurf[1].live /\ shsurf[1].parent = None
    /\ InFullscreen(dsurf, 1)
    /\ dsurf[1].size = OutputMode(1)
    /\ shsurf[2].live /\ shsurf[2].parent = 1
    /\ InNormal(dsurf, 2)

(***************************************************************************)
(* Claims about window destruction.                                        *)
(***************************************************************************)
\* desktop_surface_removed entered again for the surface of the window
\* being destroyed, from a listener of its destroy_signal, returns at once
\* exactly when the user data of the desktop surface gives no record.
ReentrantRemovalIsNoOp(ev) == ev.linked = None

\* C15: in window destroy, the desktop-surface association of the window is
\* already cleared when the pre-destroy notification is emitted: a listener
\* running during the emission does not reach the window record through its
\* surface, and a reentrant removal for the same surface is a no-op.
C15_AssociationClearedBeforeEmit ==
    \A w \in MainSurfaces :
        RemovedWindow(event, w) =>
            /\ event.linked # w
            /\ ReentrantRemovalIsNoOp(event)

\* A window with a child has been destroyed: the child's parent-destroy
\* listener ran during the emission, gave the child the grandparent, and the
\* destroyed window's surface still led to its record at that moment.
C15_Witness ==
    /\ RemovedWindow(event, 2)
    /\ event.parent = 1
    /\ shsurf[3].live /\ shsurf[3].parent = 1
    /\ event.linked = 2
    /\ ~shsurf[2].live

\* The window or output that a field refers to has been destroyed.
DanglingParent(w) == shsurf[w].parent # None /\ ~shsurf[shsurf[w].parent].live
DanglingOutput(w) ==
    shsurf[w].output # None /\ shsurf[w].output \notin Range(output_list)

\* C16: once a window-destroy or output-destroy event has been processed
\* (and in every other reachable state), no remaining window's parent
\* refers to a destroyed window and no remaining window's bound output
\* refers to a destroyed output, for every interleaving of window,
\* set_parent, placement and output events.
C16_NoDanglingParentOrOutput ==
    \A w \in MainSurfaces :
        shsurf[w].live => ~DanglingParent(w) /\ ~DanglingOutput(w)

\* The middle window of a chain has been destroyed after the output its
\* child was bound to: the child remains, with the grandparent as its
\* parent and the output that replaced the destroyed one.
C16_Witness ==
    /\ RemovedWindow(event, 2)
    /\ event.parent = 1
    /\ shsurf[1].live /\ shsurf[3].live
    /\ shsurf[3].parent = 1
    /\ shsurf[1].output = None
    /\ shsurf[3].output = 1
    /\ output_list = <<1>>

\* C17: when a window P is destroyed, every window whose parent was P ends
\* with P's former parent (the grandparent) as its parent, so it becomes a
\* root only if P was a root, and its parent-destroy subscription is moved
\* from P to the grandparent.
C17_ChildrenGoToGrandparent ==
    [][\A P \in MainSurfaces, c \in MainSurfaces :
          (/\ RemovedWindow(event', P)
           /\ shsurf[c].live
           /\ shsurf[c].parent = P)
          => /\ shsurf'[c].live
             /\ shsurf[c].parent_listener = P
             /\ shsurf'[c].parent = shsurf[P].parent
             /\ shsurf'[c].parent_listener = shsurf[P].parent]_vars

\* The middle window of a chain has been destroyed and its child is now
\* the child of, and subscribed to, the window at the head of the chain.
C17_Witness ==
    /\ RemovedWindow(event, 2)
    /\ event.parent = 1
    /\ shsurf[1].live /\ shsurf[1].parent = None
    /\ shsurf[3].live
    /\ shsurf[3].parent = 1
    /\ shsurf[3].parent_listener = 1
    /\ ~InFullscreen(dsurf, 3)

(***************************************************************************)
(* Claims about the output of a window that is given a parent.             *)
(***************************************************************************)
\* C18 as stated: right after set_parent(w, p) with p non-null, w is in
\* Normal placement and w's bound output is the bound output of p's root
\* ancestor or none, whatever w's app id and whichever output is focused or
\* default.
C18_ChildOnRootOutputOrNone ==
    [][\A w \in MainSurfaces, p \in MainSurfaces :
          GivenParent(event', w, p)
          => /\ InNormal(dsurf', w)
             /\ shsurf'[w].output \in {shsurf[RootAncestor(p)].output, None}]_vars

\* C18, amended: right after set_parent(w, p) with p non-null, w is in
\* Normal placement and bound to the first there is of: the first registered
\* output whose affinity list contains w's app id, the bound output of p's
\* root ancestor, the focused output, the default output; w is bound to no
\* output only when no output is registered.
C18_ChildOnAffinityRootFocusedDefault ==
    [][\A w \in MainSurfaces, p \in MainSurfaces :
          GivenParent(event', w, p)
          => /\ InNormal(dsurf', w)
             /\ shsurf'[w].output =
                   FirstAvailable(<<PriorityCandidates(w)[2],
                                    shsurf[RootAncestor(p)].output,
                                    PriorityCandidates(w)[4],
                                    PriorityCandidates(w)[5]>>)
             /\ (shsurf'[w].output = None) = (output_list = <<>>)]_vars

\* Window 2, whose app id is in the affinity list of output 2, has been
\* given the parent 1, a root on output 1, and is bound to output 2: neither
\* the output of the root nor none.
C18_Witness ==
    /\ GivenParent(event, 2, 1)
    /\ shsurf[1].parent = None
    /\ shsurf[1].output = 1
    /\ dsurf[2].app_id = <<"a">>
    /\ focused_output = 1
    /\ output_list = <<1, 2>>
    /\ shsurf[2].output = 2
    /\ InNormal(dsurf, 2)

(***************************************************************************)
(* Outputs that change mode under mapped and unmapped windows: up to       *)
(* MaxPlaced windows without app id, the second of which may become the    *)
(* child of the first, on up to MaxOutputs outputs.                        *)
(***************************************************************************)
ResizeNext ==
    \/ Return
    \/ \E s \in PlacedSurfaces : Added(s, NullStr)
    \/ \E s \in PlacedSurfaces : Committed(s)
    \/ \E s \in PlacedSurfaces, p \in PlacedSurfaces :
          s > p /\ KeepsForest(s, p) /\ SetParentRequested(s, p)
    \/ \E s \in PlacedSurfaces, o \in Outputs :
          o \in Range(output_list) /\ FullscreenRequested(s, TRUE, o)
    \/ \E s \in PlacedSurfaces : MaximizedRequested(s, TRUE)
    \/ \E o \in Outputs : OutputCreated(o)
    \/ \E o \in Outputs : \E mode \in OutputModes(o) : OutputResized(o, mode)

SpecResize == Init /\ [][ResizeNext]_vars

(***************************************************************************)
(* Outputs that change position under mapped and unmapped windows, in the  *)
(* same setting.                                                           *)
(***************************************************************************)
MoveNext ==
    \/ Return
    \/ \E s \in PlacedSurfaces : Added(s, NullStr)
    \/ \E s \in PlacedSurfaces : Committed(s)
    \/ \E s \in PlacedSurfaces, p \in PlacedSurfaces :
          s > p /\ KeepsForest(s, p) /\ SetParentRequested(s, p)
    \/ \E s \in PlacedSurfaces, o \in Outputs :
          o \in Range(output_list) /\ FullscreenRequested(s, TRUE, o)
    \/ \E o \in Outputs : OutputCreated(o)
    \/ \E o \in Outputs, d \in Moves : OutputMoved(o, d)

SpecMove == Init /\ [][MoveNext]_vars

(***************************************************************************)
(* Claims about outputs that change mode or position.                      *)
(***************************************************************************)
\* The handler that just ran was told that output o has a new mode, or a
\* new position.
ResizedOutput(ev, o) == ev.name = "output_resized" /\ ev.arg = o
MovedOutput(ev, o) == ev.name = "output_moved" /\ ev.arg = o

\* The view v sits in the middle of the output at pos of the given size.
CenteredOn(v, pos, size) ==
    v.pos = << pos[1] + Half(size[1] - v.size[1]),
               pos[2] + Half(size[2] - v.size[2]) >>

\* C19: on an output-resized event for output O, every window, mapped or
\* not yet mapped, whose bound output is O and whose placement is Maximized
\* or Fullscreen is sent a set_size command with O's new width and height
\* and is recentered on O.
C19_ResizeReachesEveryBoundWindow ==
    [][\A O \in Outputs, w \in MainSurfaces :
          (/\ ResizedOutput(event', O)
           /\ shsurf[w].live
           /\ shsurf[w].output = O
           /\ (InFullscreen(dsurf, w) \/ InMaximized(dsurf, w)))
          => /\ dsurf'[w].size = output_size'[O]
             /\ CenteredOn(views'[w], output_pos'[O], output_size'[O])]_vars

\* Output 1 has changed mode while window 1, fullscreen on it, was not yet
\* mapped: the window still has the size of the old mode.
C19_Witness ==
    /\ ResizedOutput(event, 1)
    /\ shsurf[1].live /\ shsurf[1].output = 1
    /\ InFullscreen(dsurf, 1)
    /\ ~mapped[1]
    /\ output_size[1] = ResizedMode(1)
    /\ dsurf[1].size = OutputMode(1)

\* The views that kiosk_shell_handle_output_moved finds on output O: the
\* views of the normal layer whose output is O.
WindowViewsOn(O) == {w \in MainSurfaces : mapped[w] /\ views[w].output = O}

\* C20: on an output-moved event for output O by (dx, dy), the position of
\* every background view and window view currently on O changes by exactly
\* (dx, dy), the views on other outputs keep their position, and no
\* window's size, placement, parent or bound output changes.
C20_MoveShiftsViewsOnOutput ==
    [][\A O \in Outputs :
          MovedOutput(event', O)
          => LET d == << output_pos'[O][1] - output_pos[O][1],
                         output_pos'[O][2] - output_pos[O][2] >>
             IN  /\ d \in Moves
                 /\ background_view[O].live
                 /\ \A x \in Outputs :
                       background_view'[x].pos =
                          IF x = O THEN Shifted(background_view[x].pos, d)
                          ELSE background_view[x].pos
                 /\ \A w \in MainSurfaces :
                       views'[w].pos =
                          IF w \in WindowViewsOn(O)
                          THEN Shifted(views[w].pos, d)
                          ELSE views[w].pos
                 /\ \A w \in MainSurfaces :
                       /\ dsurf'[w] = dsurf[w]
                       /\ shsurf'[w] = shsurf[w]
                       /\ views'[w].size = views[w].size]_vars

\* Output 2 has moved by (1, 0) from where it was created: its background
\* view and the view of window 2, fullscreen on it, are at the new origin,
\* while the view of window 1 on output 1 is where it was.
C20_Witness ==
    /\ MovedOutput(event, 2)
    /\ output_pos[2] = Shifted(OutputOrigin(2), <<1, 0>>)
    /\ background_view[2].live
    /\ background_view[2].pos = output_pos[2]
    /\ mapped[2] /\ views[2].output = 2
    /\ shsurf[2].output = 2
    /\ InFullscreen(dsurf, 2)
    /\ views[2].pos = output_pos[2]
    /\ mapped[1] /\ views[1].output = 1
    /\ views[1].pos = OutputOrigin(1)
    /\ background_view[1].pos = OutputOrigin(1)

(***************************************************************************)
(* Windows whose record or view cannot be allocated, among windows that    *)
(* can, with seats and an output.                                          *)
(***************************************************************************)
AllocNext ==
    \/ Return
    \/ \E s \in PlacedSurfaces : Added(s, NullStr)
    \/ \E s \in PlacedSurfaces, failed \in Allocations :
          AddedWithoutMemory(s, failed)
    \/ \E s \in PlacedSurfaces : Removed(s)
    \/ \E s \in PlacedSurfaces : RemovedWithoutRecord(s)
    \/ \E s \in PlacedSurfaces : Committed(s)
    \/ \E i \in Seats : SeatCreated(i, TRUE)
    \/ \E o \in HierOutputs : OutputCreated(o)

SpecAlloc == Init /\ [][AllocNext]_vars

\* The window-added event for surface s has just been dropped for want of
\* memory.
AddedDropped(ev, s) == ev.name = "added_no_memory" /\ ev.surface = s

\* C21: when the allocation of the window record fails during a
\* window-added event, the event leaves no state behind: no view created
\* for the surface remains, no association is set on the surface, and no
\* window, seat or output state changes.
C21_FailedAddLeavesNothing ==
    [][\A s \in MainSurfaces :
          AddedDropped(event', s)
          => /\ ~views'[s].created
             /\ GetKioskShellSurface(St', s) = None
             /\ shsurf' = shsurf /\ dsurf' = dsurf
             /\ mapped' = mapped /\ layer' = layer
             /\ seats' = seats
             /\ output_list' = output_list /\ output_size' = output_size
             /\ background_view' = background_view]_vars

\* The record of window 2 could not be allocated while window 1 and a seat
\* were there: surface 2 has no record and yet a view.
C21_Witness ==
    /\ AddedDropped(event, 2)
    /\ ~shsurf[2].live
    /\ views[2].created
    /\ shsurf[1].live /\ mapped[1]
    /\ seats[1].live /\ seats[1].kbd_focus = 1

(***************************************************************************)
(* Claims about the choice of the focus successor.                         *)
(***************************************************************************)
\* The positions of the layer whose view may succeed w: mapped, not w's
\* own, and of a surface with a window record.
EligiblePositions(w) ==
    {i \in 1..Len(layer) :
        /\ mapped[layer[i]]
        /\ layer[i] # w
        /\ GetKioskShellSurface(St, layer[i]) # None}

\* Those of them whose window has the root ancestor of w.
SameRootPositions(w) ==
    {i \in EligiblePositions(w) : RootAncestor(layer[i]) = RootAncestor(w)}

C23_ActivatedIffFocusCountPositive ==
    \A w \in MainSurfaces :
        shsurf[w].live => (dsurf[w].activated = (shsurf[w].focus_count > 0))

\* A seat has just left window 2 for window 1, which the other seat focuses
\* too: window 2 has been deactivated with its count at zero, window 1 stays
\* activated with its count at two.
C23_Witness ==
    /\ event.name = "keyboard_focus"
    /\ event.surface = 1
    /\ shsurf[1].live /\ shsurf[1].focus_count = 2 /\ dsurf[1].activated
    /\ shsurf[2].live /\ shsurf[2].focus_count = 0 /\ ~dsurf[2].activated
    /\ activate_log = << <<2, FALSE>> >>

\* A focus-changed event has just been handled on seat i, with surface s as
\* the keyboard's new focus.
FocusChanged(ev, i, s) ==
    ev.name = "keyboard_focus" /\ ev.seat = i /\ ev.surface = s

\* C24: a focus-changed event on a seat whose new focus resolves to the
\* window that the seat already focuses leaves that window's focus_count
\* unchanged throughout and issues no set_activated command, neither a
\* deactivation nor an activation.
C24_SameWindowFocusIssuesNothing ==
    [][\A i \in Seats, s \in Surfaces, w \in MainSurfaces :
          (/\ FocusChanged(event', i, s)
           /\ i \in SeatsFocusing(w)
           /\ GetKioskShellSurface(St, MainSurface(s)) = w)
          => /\ shsurf'[w].focus_count = shsurf[w].focus_count
             /\ activate_log' = <<>>]_vars

\* The keyboard focus of seat 1 has moved from window 1's surface to its
\* subsurface while no other seat focused the window: the window was
\* commanded deactivated and activated again.
C24_Witness ==
    /\ FocusChanged(event, 1, SubSurface)
    /\ seats[1].focused_surface = 1
    /\ shsurf[1].live /\ shsurf[1].focus_count = 1
    /\ activate_log = << <<1, FALSE>>, <<1, TRUE>> >>

\* C25: every window's focus_count is non-negative in every reachable
\* state, after any sequence of window added and removed, seat created and
\* focus-changed events, also when a surface that a seat still records as
\* focused loses its window record and later gets a new one.
C25_FocusCountNonNegative ==
    \A w \in MainSurfaces : shsurf[w].focus_count >= 0

\* Window 1 was removed while seat 1 still recorded its surface as focused,
\* the surface got a new record, and the seat's focus has now moved to
\* window 2: the new record, never counted up, has been counted down.
C25_Witness ==
    /\ event.name = "added"
    /\ event.surface = 2
    /\ seats[1].focused_surface = 2
    /\ shsurf[1].live
    /\ shsurf[1].focus_count = -1
    /\ shsurf[2].focus_count = 1

(***************************************************************************)
(* Seats that gain and lose their keyboard and are destroyed, with up to   *)
(* MaxPlaced windows to focus.                                             *)
(***************************************************************************)
\* No focus_count exceeds the number of seats there can be: seats are
\* destroyed only then, which keeps the counts of the runs bounded.
CountsWithinSeats ==
    \A w \in MainSurfaces : shsurf[w].focus_count <= MaxSeats

SeatsNext ==
    \/ Return
    \/ \E s \in PlacedSurfaces : Added(s, NullStr)
    \/ \E i \in Seats, k \in BOOLEAN : SeatCreated(i, k)
    \/ \E i \in Seats, k \in BOOLEAN : SeatCapsChanged(i, k)
    \/ \E i \in Seats : CountsWithinSeats /\ SeatDestroyed(i)
    \/ \E i \in Seats, s \in PlacedSurfaces \cup {None} : KeyboardFocus(i, s)

SpecSeats == Init /\ [][SeatsNext]_vars

(***************************************************************************)
(* Claims about the seats.                                                 *)
(***************************************************************************)
\* C26: after every seat-created and every capability-changed event, the
\* keyboard focus listener of a seat is subscribed exactly when the seat
\* has a keyboard, and it is never subscribed twice, for any sequence of
\* capability gains and losses.
C26_ListeningIffKeyboard ==
    \A i \in Seats :
        seats[i].live =>
            /\ seats[i].listening = seats[i].keyboard
            /\ ~seats[i].twice

\* Seat 1, created without keyboard, has gained one, lost it and been told
\* of a change that gave it one again while it focuses nothing yet; seat 2
\* has lost its keyboard and the focus on window 1 with it.
C26_Witness ==
    /\ event.name = "caps_changed"
    /\ event.seat = 2
    /\ seats[1].live /\ seats[1].keyboard /\ seats[1].listening
    /\ seats[1].focused_surface = 1
    /\ seats[2].live /\ ~seats[2].keyboard /\ ~seats[2].listening
    /\ seats[2].focused_surface = None
    /\ shsurf[1].focus_count = 1

\* Seat i has just been destroyed.
SeatGone(ev, i) == ev.name = "seat_destroyed" /\ ev.seat = i

\* C29: when a seat is destroyed while its focus record refers to window W,
\* W's focus_count no longer counts that seat afterwards: it equals the
\* number of live seats focusing W, and W is commanded deactivated if that
\* number is zero.
C29_DestroyedSeatIsNotCounted ==
    [][\A i \in Seats, w \in MainSurfaces :
          (SeatGone(event', i) /\ i \in SeatsFocusing(w))
          => /\ shsurf'[w].focus_count = Cardinality(SeatsFocusing(w)')
             /\ (SeatsFocusing(w)' = {} => ~dsurf'[w].activated)]_vars

\* Seat 1, the only seat that focused window 1, has been destroyed: no live
\* seat focuses the window, which is still counted once and activated.
C29_Witness ==
    /\ SeatGone(event, 1)
    /\ event.surface = 1
    /\ ~seats[1].live
    /\ SeatsFocusing(1) = {}
    /\ shsurf[1].live
    /\ shsurf[1].focus_count = 1
    /\ dsurf[1].activated

(***************************************************************************)
(* Claims about roots and about the shape of the parent relation.          *)
(***************************************************************************)
\* C27: every root window (parent = none) whose added event has completed
\* is in Fullscreen placement in every reachable state, whatever sequence
\* of fullscreen and unfullscreen requests, maximize and unmaximize
\* requests, set_parent(none), parent-destroyed and output events occurs.
C27_RootsAreFullscreen ==
    \A w \in MainSurfaces :
        (shsurf[w].live /\ shsurf[w].parent = None) => InFullscreen(dsurf, w)

\* Window 1 has been destroyed and its child, window 2, maximized before,
\* has become a root: it is fullscreen on its output.
C27_Witness ==
    /\ RemovedWindow(event, 1)
    /\ event.parent = None
    /\ shsurf[2].live /\ shsurf[2].parent = None
    /\ InMaximized(dsurf, 2)
    /\ InFullscreen(dsurf, 2)
    /\ shsurf[2].output = 1
    /\ dsurf[2].size = OutputMode(1)

(***************************************************************************)
(* The parent relation as the clients may request it: set_parent with any  *)
(* live window as parent, the window itself and its descendants included,  *)
(* with windows mapped and removed, a seat and the outputs.                *)
(***************************************************************************)
CycleNext ==
    \/ Return
    \/ \E s \in PlacedSurfaces : Added(s, ClientAppId(s))
    \/ \E s \in PlacedSurfaces : Committed(s)
    \/ \E s \in PlacedSurfaces, p \in PlacedSurfaces \cup {None} :
          SetParentRequested(s, p)
    \/ \E s \in PlacedSurfaces : Removed(s)
    \/ \E i \in Seats : SeatCreated(i, TRUE)
    \/ \E o \in Outputs : OutputCreated(o)

SpecCycle == Init /\ [][CycleNext]_vars

\* The windows whose chain of parents comes back to a window of the chain.
OnParentCycle(sh) ==
    {w \in MainSurfaces :
        sh[w].live /\ ParentRootWalk(sh, w, MaxSurfaces) = Hang}

\* C28: after any sequence of set_parent requests, set_parent(w, w) and
\* set_parent of a window to one of its descendants included, no window is
\* its own ancestor, and no handler is left in a root-ancestor walk that
\* does not end.
C28_ParentRelationAcyclic == OnParentCycle(shsurf) = {} /\ ~hung

\* set_parent(w, w) has been handled: the window is its own parent, and the
\* handler is still in the walk of find_best_output.
C28_Witness ==
    /\ event.name = "set_parent" /\ event.surface = event.arg
    /\ shsurf[event.surface].parent = event.surface
    /\ hung

(***************************************************************************)
(* Activation by click and by touch.                                       *)
(***************************************************************************)
\* The surface of the background views: not a desktop surface, so that
\* get_kiosk_shell_surface gives NULL for it.
BackgroundSurface == MaxSurfaces + 2

\* The views the pointer or a touch point may focus: the mapped view of a
\* window, the view of the subsurface of a mapped window, and a background
\* view.  A view is named by its surface.
PickableViews ==
    {v \in MainSurfaces : shsurf[v].live /\ mapped[v]}
    \cup {v \in {SubSurface} :
            shsurf[MainSurface(v)].live /\ mapped[MainSurface(v)]}
    \cup {v \in {BackgroundSurface} :
            \E o \in Outputs : background_view[o].live}

\* weston_layer_entry_remove(&view->layer_link) followed by
\* weston_layer_entry_insert(&shell->normal_layer.view_list, ...): the view
\* leaves the place it has, if any, and is the first of the list.
RaiseView(st, v) ==
    [st EXCEPT !.layer = <<v>> \o SelectSeq(@, LAMBDA x : x # v)]

\* A wrong kiosk_shell_activate_view, to test the claims against: the view
\* is brought to the front whether its window has a parent or not.
ActivateViewMutRaiseRoot(st, v, seat) ==
    LET w == GetKioskShellSurface(st, MainSurface(v))
    IN  IF w = None THEN st
        ELSE ViewActivate(RaiseView(st, v), v, seat)

\* kiosk_shell_activate_view
ActivateView(st, v, seat) ==
    LET w == GetKioskShellSurface(st, MainSurface(v))
    IN  IF w = None THEN st
        ELSE ViewActivate(IF st.shsurf[w].parent # None
                          THEN RaiseView(st, v) ELSE st,
                          v, seat)

\* kiosk_shell_click_to_activate_binding, with the pointer's default grab
\* and a focused view (the binding returns at once otherwise).
ClickToActivate(i, v) ==
    /\ Idle
    /\ seats[i].live
    /\ v \in PickableViews
    /\ Commit(ActivateView(St, v, i),
              [NoEvent EXCEPT !.name = "click_to_activate", !.seat = i,
                              !.surface = v])

\* kiosk_shell_touch_to_activate_binding, likewise.
TouchToActivate(i, v) ==
    /\ Idle
    /\ seats[i].live
    /\ v \in PickableViews
    /\ Commit(ActivateView(St, v, i),
              [NoEvent EXCEPT !.name = "touch_to_activate", !.seat = i,
                              !.surface = v])

\* Two windows, either the parent of the other, mapped, on an output with
\* its background, and seats whose pointer and touch points activate the
\* views.
ActivateNext ==
    \/ Return
    \/ \E s \in PlacedSurfaces : Added(s, NullStr)
    \/ \E s \in PlacedSurfaces : Committed(s)
    \/ \E s \in PlacedSurfaces, p \in PlacedSurfaces \cup {None} :
          KeepsForest(s, p) /\ SetParentRequested(s, p)
    \/ \E i \in Seats : SeatCreated(i, TRUE)
    \/ \E o \in HierOutputs : OutputCreated(o)
    \/ \E i \in Seats,
          v \in PlacedSurfaces \cup {SubSurface, BackgroundSurface} :
          ClickToActivate(i, v)
    \/ \E i \in Seats,
          v \in PlacedSurfaces \cup {SubSurface, BackgroundSurface} :
          TouchToActivate(i, v)

SpecActivate == Init /\ [][ActivateNext]_vars

Activated(ev) == ev.name \in {"click_to_activate", "touch_to_activate"}

\* The window of an activated view: None for a view of no window.
WindowOfView(v) == GetKioskShellSurface(St, MainSurface(v))

\* C30: an activation by click or touch makes the view the first of the
\* normal layer, the other views keeping their order, when the view's
\* window has a parent, and leaves the layer as it is otherwise: a root is
\* not raised above its children.
C30_ActivationRaisesChildrenOnly ==
    [][Activated(event') =>
          LET v == event'.surface
              w == WindowOfView(v)
          IN  IF w # None /\ shsurf[w].parent # None
              THEN layer' = <<v>> \o SelectSeq(layer, LAMBDA x : x # v)
              ELSE layer' = layer]_vars

\* A root below its child has been clicked: the keyboard focus is on the
\* root and the child is still above it.
C30_Witness ==
    /\ event.name = "click_to_activate" /\ event.surface = 1
    /\ shsurf[1].parent = None /\ shsurf[2].parent = 1
    /\ layer = <<2, 1>>
    /\ seats[event.seat].kbd_focus = 1
    /\ activate_log = <<<<2, FALSE>>, <<1, TRUE>>>>

====
